---- MODULE Spec2Model ----
(***************************************************************************)
(* A model of src/src/ncurses_ui.cc: the terminal user interface of the    *)
(* editor.  The state is the NCursesUI object (ui), the process and its    *)
(* controlling terminal (os) and what the last operation was seen to do    *)
(* (obs).  Every method of the class is an operator from a world           *)
(* [ui, os, out] to the world it leaves; the actions apply them.           *)
(***************************************************************************)
EXTENDS Integers, Sequences, FiniteSets, TLC

VARIABLES ui, os, obs

vars == <<ui, os, obs>>

(***************************************************************************)
(* Bounds of the model.                                                    *)
(***************************************************************************)
\* most bytes the terminal sends during one stdin event
MaxStdin == 3
\* most keys one stdin event has delivered when a signal still adds one
MaxKeys == 2

(***************************************************************************)
(* Integer helpers: C++ arithmetic on int.                                 *)
(***************************************************************************)
Min(a, b) == IF a < b THEN a ELSE b

Max(a, b) == IF a > b THEN a ELSE b

\* integer division of C++: truncation toward zero (b # 0)
CDiv(a, b) ==
    IF (a >= 0) = (b > 0) THEN (IF a >= 0 THEN a ELSE -a) \div (IF b >= 0 THEN b ELSE -b)
    ELSE -((IF a >= 0 THEN a ELSE -a) \div (IF b >= 0 THEN b ELSE -b))

\* bit k (of weight 2^k = m) of a non-negative x is set
BitSet(x, m) == (x \div m) % 2 = 1

\* x with the bit of weight m set / cleared
SetBit(x, m) == IF BitSet(x, m) THEN x ELSE x + m

ClearBit(x, m) == IF BitSet(x, m) THEN x - m ELSE x

(***************************************************************************)
(* DisplayCoord and Rect.                                                  *)
(***************************************************************************)
Coord(l, c) == [line |-> l, column |-> c]

ZeroCoord == Coord(0, 0)

CoordAdd(a, b) == Coord(a.line + b.line, a.column + b.column)

CoordSub(a, b) == Coord(a.line - b.line, a.column - b.column)

\* DisplayCoord::operator< : by line, then by column
CoordLess(a, b) == IF a.line # b.line THEN a.line < b.line ELSE a.column < b.column

(***************************************************************************)
(* termios: the flags ncurses_ui.cc touches, the character size and the    *)
(* two control characters.                                                 *)
(***************************************************************************)
RawClearedFlags ==
    {"IGNBRK", "BRKINT", "PARMRK", "ISTRIP", "INLCR", "IGNCR", "ICRNL", "IXON",
     "OPOST", "ECHO", "ECHONL", "ICANON", "ISIG", "IEXTEN", "PARENB"}

\* the attributes set_raw_mode computes from m_original_termios
RawOf(t) ==
    [flags |-> (t.flags \ RawClearedFlags) \cup {"NOFLSH"},
     csize |-> 8, vmin |-> 0, vtime |-> 0]

CookedTermios ==
    [flags |-> {"BRKINT", "ICRNL", "IXON", "OPOST", "ECHO", "ICANON", "ISIG", "IEXTEN"},
     csize |-> 8, vmin |-> 1, vtime |-> 0]

SevenBitTermios ==
    [flags |-> {"ICRNL", "OPOST", "ECHO", "ICANON", "ISIG", "PARENB", "NOFLSH"},
     csize |-> 7, vmin |-> 1, vtime |-> 0]

NoTermios == [flags |-> {"unset"}, csize |-> 0, vmin |-> 0, vtime |-> 0]

InitialTermios == {CookedTermios, SevenBitTermios}

(***************************************************************************)
(* Keys.  A key is [mod, key]; an Optional<Key> is a sequence of at most   *)
(* one key.  Named keys are the codepoints of Key::NamedKey.               *)
(***************************************************************************)
\* Key::NamedKey: the first value of the enumeration
NamedKeyBase == 55296

KeyBackspace == NamedKeyBase
KeyDelete == NamedKeyBase + 1
KeyEscape == NamedKeyBase + 2
KeyReturn == NamedKeyBase + 3
KeyUp == NamedKeyBase + 4
KeyDown == NamedKeyBase + 5
KeyLeft == NamedKeyBase + 6
KeyRight == NamedKeyBase + 7
KeyPageUp == NamedKeyBase + 8
KeyPageDown == NamedKeyBase + 9
KeyHome == NamedKeyBase + 10
KeyEnd == NamedKeyBase + 11
KeyInsert == NamedKeyBase + 12
KeyTab == NamedKeyBase + 13
KeyF1 == NamedKeyBase + 14
KeyF2 == NamedKeyBase + 15
KeyF3 == NamedKeyBase + 16
KeyF4 == NamedKeyBase + 17
KeyF6 == NamedKeyBase + 19
KeyF11 == NamedKeyBase + 24
KeyFocusIn == NamedKeyBase + 26
KeyFocusOut == NamedKeyBase + 27

Key(mods, code) == [mod |-> mods, key |-> code]

\* Key{}: what "return {}" builds in a function returning Key
DefaultKey == Key({}, 0)

alt(k) == Key(k.mod \cup {"Alt"}, k.key)

ctrl(c) == Key({"Control"}, c)

shift(c) == Key({"Shift"}, c)

TwoTo16 == 65536

\* A Codepoint is 32 bits wide and unsigned.  It is written here as the
\* signed integer that has the same 32 bits, so the conversion of an int of
\* the same width keeps the number and -3 stands for 0xFFFFFFFD.
Codepoint(x) == x

\* encode_coord: the line in the high 16 bits, the column in the low 16
encode_coord(c) == Codepoint(c.line * TwoTo16 + (c.column % TwoTo16))

resize(dim) == Key({"Resize"}, encode_coord(dim))

NoKey == <<>>

Some(k) == <<k>>

(***************************************************************************)
(* Faces and atoms.  An atom of a window line is [len, face]: the column   *)
(* length of its text and its face.  A DisplayAtom handed to draw is       *)
(* [len, face, nl]: nl says that its content ends with a newline (which    *)
(* counts for one column).                                                 *)
(***************************************************************************)
\* merge_faces(base, over): over wins where it is set
merge_faces(base, over) == IF over = "default" THEN base ELSE over

Atom(n, f) == [len |-> n, face |-> f]

DisplayAtom(n, f) == [len |-> n, face |-> f, nl |-> FALSE]

RECURSIVE LineLength(_)
\* the column length of a line: the sum of its atoms' lengths
LineLength(line) ==
    IF line = <<>> THEN 0 ELSE line[1].len + LineLength(Tail(line))

(***************************************************************************)
(* NCursesUI::Window                                                       *)
(***************************************************************************)
NewWindow == [pos |-> ZeroCoord, size |-> ZeroCoord, cursor |-> ZeroCoord, lines |-> <<>>]

\* Window::operator bool: a window is present iff its size is not zero
Present(win) == win.size # ZeroCoord

\* std::vector::resize: keep what is there, add empty lines, drop the rest
ResizeLines(lines, n) ==
    [i \in 1..n |-> IF i <= Len(lines) THEN lines[i] ELSE <<>>]

WindowCreate(win, p, s) ==
    [win EXCEPT !.pos = p, !.size = s, !.lines = ResizeLines(win.lines, s.line)]

WindowDestroy(win) ==
    [win EXCEPT !.pos = ZeroCoord, !.size = ZeroCoord, !.lines = <<>>]

WindowMoveCursor(win, coord) == [win EXCEPT !.cursor = coord]

\* lines[(int)cursor.line] is an element of lines
CursorOnLine(win) == win.cursor.line >= 0 /\ win.cursor.line < Len(win.lines)

RECURSIVE KeptAtoms(_, _, _)
\* the loop of clear_line: how many atoms of the line are walked before the
\* column reaches the cursor column, and the column reached
KeptAtoms(line, column, target) ==
    IF line = <<>> \/ column >= target
    THEN [n |-> 0, column |-> column]
    ELSE LET r == KeptAtoms(Tail(line), column + line[1].len, target)
         IN  [n |-> r.n + 1, column |-> r.column]

\* the atoms clear_line keeps of a line: the k.n atoms walked, the last
\* one shortened by what it reaches past the cursor column
CutLine(line, k, column) ==
    IF k.column > column
    THEN [SubSeq(line, 1, k.n) EXCEPT ![k.n].len = @ - (k.column - column)]
    ELSE SubSeq(line, 1, k.n)

ClearedLine(line, column) == CutLine(line, KeptAtoms(line, 0, column), column)

\* Window::clear_line on a window whose cursor is on a line
WindowClearLine(win) ==
    [win EXCEPT !.lines[win.cursor.line + 1] = ClearedLine(@, win.cursor.column)]

RECURSIVE DrawAtoms(_, _, _)
\* the loop of Window::draw: the atoms appended for the DisplayAtoms and
\* the columns the cursor advances by
DrawAtoms(atoms, default_face, acc) ==
    IF atoms = <<>> THEN acc
    ELSE LET a    == atoms[1]
             face == merge_faces(default_face, a.face)
             new  == IF a.len = 0 THEN <<>>
                     ELSE IF a.nl THEN <<Atom(a.len - 1, face), Atom(1, face)>>
                     ELSE <<Atom(a.len, face)>>
         IN  DrawAtoms(Tail(atoms), default_face,
                       [line |-> acc.line \o new, adv |-> acc.adv + a.len])

\* the end of Window::draw: the rest of the line is padded with the
\* default face
PadAtoms(width, col, default_face) ==
    IF col < width THEN <<Atom(width - col, default_face)>> ELSE <<>>

\* Window::draw after clear_line (c: the window, d: what the loop made)
WindowDrawn(c, d, default_face) ==
    [c EXCEPT !.lines[c.cursor.line + 1] =
                  d.line \o PadAtoms(c.size.column, c.cursor.column + d.adv, default_face),
              !.cursor.column = @ + d.adv]

WindowDrawLoop(c, atoms, default_face) ==
    WindowDrawn(c, DrawAtoms(atoms, default_face,
                             [line |-> c.lines[c.cursor.line + 1], adv |-> 0]),
                default_face)

\* Window::draw on a window whose cursor is on a line
WindowDraw(win, atoms, default_face) ==
    WindowDrawLoop(WindowClearLine(win), atoms, default_face)

(***************************************************************************)
(* The world an operation works on: [ui, os, out, ub].  out collects what  *)
(* the operation writes to stdout; ub says that it ran into undefined      *)
(* behaviour (an access outside a vector, a division by zero).             *)
(***************************************************************************)
Em(k, a, b) == [k |-> k, a |-> a, b |-> b]

Emit(w, es) == [w EXCEPT !.out = @ \cup es]

content_line_offset(w) == IF w.ui.m_status_on_top THEN 1 ELSE 0

\* draw on one of the three windows (f is "m_window", "m_menu" or "m_info"):
\* an access outside lines is undefined behaviour
DrawOn(w, f, atoms, face) ==
    IF CursorOnLine(w.ui[f])
    THEN [w EXCEPT !.ui[f] = WindowDraw(w.ui[f], atoms, face)]
    ELSE [w EXCEPT !.ub = TRUE]

MoveCursorOn(w, f, coord) == [w EXCEPT !.ui[f] = WindowMoveCursor(w.ui[f], coord)]

\* Window::refresh: writes the lines, if there are any
WindowRefresh(w, f) ==
    IF w.ui[f].lines = <<>> THEN w ELSE Emit(w, {Em(f, 0, 0)})

MouseModes == {1006, 1004, 1000, 1002}

setup_terminal(w) ==
    [Emit(w, {Em("mode", 1049, 1), Em("mode", 25, 0)})
        EXCEPT !.os.modes = (@ \cup {1049}) \ {25}]

restore_terminal(w) ==
    [Emit(w, {Em("mode", 1049, 0), Em("mode", 25, 1), Em("sgr0", 0, 0)})
        EXCEPT !.os.modes = (@ \ {1049}) \cup {25}]

enable_mouse(w, enabled) ==
    IF enabled = w.ui.m_mouse_enabled THEN w
    ELSE IF enabled
    THEN [Emit(w, {Em("mode", m, 1) : m \in MouseModes})
            EXCEPT !.ui.m_mouse_enabled = TRUE, !.os.modes = @ \cup MouseModes]
    ELSE [Emit(w, {Em("mode", m, 0) : m \in MouseModes})
            EXCEPT !.ui.m_mouse_enabled = FALSE, !.os.modes = @ \ MouseModes]

\* tcsetattr(STDIN_FILENO, TCSAFLUSH, attr): unread input is discarded
tcsetattr(w, attr) == [w EXCEPT !.os.termios = attr, !.os.stdin = <<>>]

set_raw_mode(w) == tcsetattr(w, RawOf(w.ui.m_original_termios))

set_signal_handler(w, sig, h) == [w EXCEPT !.os.handlers[sig] = h]

\* EventManager::force_signal(0): the stdin watcher runs at the next turn
force_signal(w) == [w EXCEPT !.os.forced = TRUE]

set_resize_pending(w) == force_signal([w EXCEPT !.ui.m_resize_pending = TRUE])

\* the menu is refreshed unless it sits in the status line with no columns
RefreshMenu(w) ==
    IF w.ui.m_menu.columns # 0 \/ w.ui.m_menu.pos.column > w.ui.m_status_len
    THEN WindowRefresh(w, "m_menu") ELSE w

\* where redraw puts the terminal's cursor
CursorAt(w) ==
    IF w.ui.m_cursor.mode = "Prompt"
    THEN Coord(IF w.ui.m_status_on_top THEN 0 ELSE w.ui.m_dimensions.line,
               w.ui.m_cursor.coord.column)
    ELSE CoordAdd(w.ui.m_cursor.coord, Coord(content_line_offset(w), 0))

set_cursor_pos(w, at) == Emit(w, {Em("cup", at.line + 1, at.column + 1)})

redraw(w, force) ==
    set_cursor_pos(WindowRefresh(RefreshMenu(WindowRefresh(w, "m_window")), "m_info"),
                   CursorAt(w))

refresh(w, force) ==
    [(IF w.ui.m_dirty \/ force THEN redraw(w, force) ELSE w) EXCEPT !.ui.m_dirty = FALSE]

set_cursor(w, mode, coord) == [w EXCEPT !.ui.m_cursor = [mode |-> mode, coord |-> coord]]

(***************************************************************************)
(* DisplayLine: a sequence of DisplayAtoms.                                *)
(***************************************************************************)
\* DisplayLine::length
DisplayLength(line) == LineLength(line)

RECURSIVE TrimTo(_, _)
\* DisplayLine::trim(0, n): the first n columns of the line
TrimTo(line, n) ==
    IF line = <<>> \/ n <= 0 THEN <<>>
    ELSE IF line[1].len <= n THEN <<line[1]>> \o TrimTo(Tail(line), n - line[1].len)
    ELSE <<[line[1] EXCEPT !.len = n]>>

RECURSIVE Longest(_, _)
\* accumulate(items | transform(length), init, max)
Longest(items, init) ==
    IF items = <<>> THEN init
    ELSE Longest(Tail(items), Max(init, DisplayLength(items[1])))

\* div_round_up(a, b), b # 0
div_round_up(a, b) == CDiv(a - 1, b) + 1

sq(x) == x * x

height_limit(style) == IF style = "Search" THEN 3 ELSE 10

(***************************************************************************)
(* compute_pos and the info boxes.                                         *)
(***************************************************************************)
Rect(p, s) == [pos |-> p, size |-> s]

RectEnd(rect) == CoordAdd(rect.pos, rect.size)

\* compute_pos, the line: above the anchor if asked and possible, else
\* below it, or moved up when the rectangle ends before
PosLine(anchor, size, rect, prefer_above) ==
    IF prefer_above /\ anchor.line - size.line >= 0
    THEN CoordSub(anchor, Coord(size.line, 0))
    ELSE IF anchor.line + 1 + size.line > RectEnd(rect).line
    THEN Coord(Max(rect.pos.line, anchor.line - size.line), anchor.column)
    ELSE CoordAdd(anchor, Coord(1, 0))

\* compute_pos, the column: moved left when the rectangle ends before
PosColumn(pos, size, rect) ==
    IF pos.column + size.column > RectEnd(rect).column
    THEN [pos EXCEPT !.column = Max(rect.pos.column, RectEnd(rect).column - size.column)]
    ELSE pos

\* compute_pos, the intersection test
Intersects(pos, size, to_avoid) ==
    ~(\/ pos.line + size.line < to_avoid.pos.line
      \/ pos.column + size.column < to_avoid.pos.column
      \/ pos.line > RectEnd(to_avoid).line
      \/ pos.column > RectEnd(to_avoid).column)

\* compute_pos, the line that avoids to_avoid: above it, else below it
AvoidLine(anchor, size, to_avoid) ==
    IF Min(to_avoid.pos.line, anchor.line) - size.line < 0
    THEN Max(RectEnd(to_avoid).line, anchor.line)
    ELSE Min(to_avoid.pos.line, anchor.line) - size.line

Avoid(pos, anchor, size, to_avoid) ==
    IF to_avoid.size # ZeroCoord /\ Intersects(pos, size, to_avoid)
    THEN [pos EXCEPT !.line = AvoidLine(anchor, size, to_avoid)]
    ELSE pos

compute_pos(anchor, size, rect, to_avoid, prefer_above) ==
    Avoid(PosColumn(PosLine(anchor, size, rect, prefer_above), size, rect),
          anchor, size, to_avoid)

\* the three assistants and "none": (lines, columns of the first line)
AssistantSize(a) ==
    CASE a = "clippy"  -> Coord(8, 8)
      [] a = "cat"     -> Coord(11, 17)
      [] a = "dilbert" -> Coord(10, 12)
      [] OTHER         -> ZeroCoord

RECURSIVE WrapLine(_, _)
\* one line of n columns without a space, cut into lines of at most w
WrapLine(n, w) ==
    IF n <= w \/ w <= 0 THEN <<n>> ELSE <<w>> \o WrapLine(n - w, w)

RECURSIVE wrap_lines(_, _)
\* wrap_lines(text, max_width): the widths of the wrapped lines; a text is
\* the sequence of the widths of its lines
wrap_lines(text, w) ==
    IF text = <<>> THEN <<>> ELSE WrapLine(text[1], w) \o wrap_lines(Tail(text), w)

RECURSIVE MaxOf(_, _)
MaxOf(ns, init) == IF ns = <<>> THEN init ELSE MaxOf(Tail(ns), Max(init, ns[1]))

EmptyInfoBox == [size |-> ZeroCoord, contents |-> <<>>]

\* the column length of line i of the box: the assistant, then the top of
\* the bubble, a line of the message or the bottom of the bubble
InfoBoxLine(i, asz, nlines, bubble_width) ==
    asz.column +
    (IF i = 0 THEN bubble_width + 4
     ELSE IF i < nlines + 1 THEN bubble_width + 4
     ELSE IF i = nlines + 1 THEN bubble_width + 4
     ELSE 0)

InfoBoxOf(asz, lines, line_count, bubble_width) ==
    [size |-> Coord(line_count, bubble_width + asz.column + 4),
     contents |-> [i \in 1..line_count |->
                      InfoBoxLine(i - 1, asz, Len(lines), bubble_width)]]

InfoBoxAround(title, lines, asz) ==
    InfoBoxOf(asz, lines, Max(asz.line - 1, Len(lines) + 2), MaxOf(lines, title + 2))

\* make_info_box: the size of the box and the column length of each line
make_info_box(title, message, max_width, assistant) ==
    IF max_width - AssistantSize(assistant).column - 6 < 4 THEN EmptyInfoBox
    ELSE InfoBoxAround(title,
                       wrap_lines(message, max_width - AssistantSize(assistant).column - 6),
                       AssistantSize(assistant))

SimpleInfoBoxOf(lines) == [size |-> Coord(Len(lines), MaxOf(lines, 0)), contents |-> lines]

make_simple_info_box(contents, max_width) == SimpleInfoBoxOf(wrap_lines(contents, max_width))

info_hide(w) ==
    IF ~Present(w.ui.m_info) THEN w
    ELSE [w EXCEPT !.ui.m_info = WindowDestroy(@), !.ui.m_dirty = TRUE]

RECURSIVE InfoDrawLines(_, _, _, _)
\* the loop of info_show that draws the lines of the box
InfoDrawLines(w, contents, line, face) ==
    IF line >= Len(contents) THEN w
    ELSE InfoDrawLines(
             DrawOn(MoveCursorOn(w, "m_info", Coord(line, 0)), "m_info",
                    <<DisplayAtom(contents[line + 1], "default")>>, face),
             contents, line + 1, face)

\* const Rect rect = {content_line_offset(), m_dimensions}
InfoRect(w) == Rect(Coord(content_line_offset(w), 0), w.ui.m_dimensions)

\* m_menu as a Rect
MenuRect(w) == Rect(w.ui.m_menu.pos, w.ui.m_menu.size)

\* the end of info_show: the box is made and drawn at anchor if it fits
InfoPlace(w, box, anchor, face) ==
    IF CoordLess(anchor, InfoRect(w).pos)
       \/ CoordLess(RectEnd(InfoRect(w)), CoordAdd(anchor, box.size))
    THEN w
    ELSE [InfoDrawLines([w EXCEPT !.ui.m_info = WindowCreate(@, anchor, box.size)],
                        box.contents, 0, face)
            EXCEPT !.ui.m_dirty = TRUE]

InfoPrompt(w, box, face) ==
    InfoPlace(w, box,
              compute_pos(Coord(IF w.ui.m_status_on_top THEN 0 ELSE w.ui.m_dimensions.line,
                                w.ui.m_dimensions.column - 1),
                          box.size, InfoRect(w), MenuRect(w), FALSE),
              face)

half(c) == Coord(CDiv(c.line, 2), CDiv(c.column, 2))

InfoModal(w, box, face) ==
    InfoPlace(w, box,
              CoordSub(CoordAdd(InfoRect(w).pos, half(InfoRect(w).size)), half(box.size)),
              face)

InfoMenuDocAt(w, box, right_max_width, left_max_width, face) ==
    InfoPlace(w, box,
              Coord(w.ui.m_menu.pos.line,
                    IF box.size.column <= right_max_width
                       \/ right_max_width >= left_max_width
                    THEN w.ui.m_menu.pos.column + w.ui.m_menu.size.column
                    ELSE w.ui.m_menu.pos.column - box.size.column),
              face)

InfoMenuDoc(w, right_max_width, left_max_width, face) ==
    IF ~Present(w.ui.m_menu) \/ Max(right_max_width, left_max_width) < 4 THEN w
    ELSE InfoMenuDocAt(w, make_simple_info_box(w.ui.m_info.content,
                                               Max(right_max_width, left_max_width)),
                       right_max_width, left_max_width, face)

InfoInlineAt(w, box, anchor, face, style) ==
    InfoPlace(w, box,
              CoordAdd(compute_pos(anchor, box.size, InfoRect(w), MenuRect(w),
                                   style = "InlineAbove"),
                       Coord(content_line_offset(w), 0)),
              face)

InfoInline(w, anchor, face, style) ==
    IF w.ui.m_dimensions.column - anchor.column < 4 THEN w
    ELSE InfoInlineAt(w, make_simple_info_box(w.ui.m_info.content,
                                              w.ui.m_dimensions.column - anchor.column),
                      anchor, face, style)

\* info_show after info_hide and the assignments to m_info
InfoLayout(w, anchor, face, style) ==
    IF style = "Prompt"
    THEN InfoPrompt(w, make_info_box(w.ui.m_info.title, w.ui.m_info.content,
                                     w.ui.m_dimensions.column, w.ui.m_assistant), face)
    ELSE IF style = "Modal"
    THEN InfoModal(w, make_info_box(w.ui.m_info.title, w.ui.m_info.content,
                                    w.ui.m_dimensions.column, "none"), face)
    ELSE IF style = "MenuDoc"
    THEN InfoMenuDoc(w, w.ui.m_dimensions.column
                          - (w.ui.m_menu.pos.column + w.ui.m_menu.size.column),
                     w.ui.m_menu.pos.column, face)
    ELSE InfoInline(w, anchor, face, style)

info_show(w, title, content, anchor, face, style) ==
    InfoLayout([info_hide(w) EXCEPT !.ui.m_info.title = title,
                                    !.ui.m_info.content = content,
                                    !.ui.m_info.anchor = anchor,
                                    !.ui.m_info.face = face,
                                    !.ui.m_info.style = style],
               anchor, face, style)

\* info_show with what m_info holds
InfoReshow(w) ==
    info_show(w, w.ui.m_info.title, w.ui.m_info.content, w.ui.m_info.anchor,
              w.ui.m_info.face, w.ui.m_info.style)

(***************************************************************************)
(* The menu.                                                               *)
(***************************************************************************)
\* move_cursor, then draw, on the menu
MenuCell(w, coord, atoms, face) ==
    DrawOn(MoveCursorOn(w, "m_menu", coord), "m_menu", atoms, face)

\* what follows an item of a horizontal menu: a space, or the ellipsis at
\* the end of the line when the item does not fit
DrawItemEnd(w, fits, win_width) ==
    IF fits THEN DrawOn(w, "m_menu", <<DisplayAtom(1, "default")>>, w.ui.m_menu.bg)
    ELSE MenuCell(w, Coord(0, win_width + 2), <<DisplayAtom(1, "default")>>,
                  w.ui.m_menu.bg)

RECURSIVE DrawMenuItems(_, _, _, _)
\* the loop of draw_menu over the items of a horizontal menu
DrawMenuItems(w, i, pos, win_width) ==
    IF ~(i < Len(w.ui.m_menu.items) /\ pos < win_width) THEN w
    ELSE LET item == w.ui.m_menu.items[i + 1]
         IN  DrawMenuItems(
                 DrawItemEnd(DrawOn(w, "m_menu", item,
                                    IF i = w.ui.m_menu.selected_item
                                    THEN w.ui.m_menu.fg ELSE w.ui.m_menu.bg),
                             pos + DisplayLength(item) < win_width, win_width),
                 i + 1, pos + DisplayLength(item) + 1, win_width)

\* the item of a grid cell, nothing past the last item
GridAtoms(menu, item_idx) ==
    IF item_idx < Len(menu.items) THEN menu.items[item_idx + 1] ELSE <<>>

GridFace(menu, item_idx) ==
    IF item_idx < Len(menu.items) /\ item_idx = menu.selected_item
    THEN menu.fg ELSE menu.bg

RECURSIVE DrawMenuGrid(_, _, _, _)
\* the loops of draw_menu over the lines and columns of a grid menu, cell
\* by cell (col = m_menu.columns stands for the scrollbar cell of the line)
DrawMenuGrid(w, line, col, g) ==
    IF line >= g.win_height THEN w
    ELSE IF col < w.ui.m_menu.columns
    THEN DrawMenuGrid(
             MenuCell(w, Coord(line, col * g.column_width),
                      GridAtoms(w.ui.m_menu,
                                (g.first_col + col) * w.ui.m_menu.size.line + line),
                      GridFace(w.ui.m_menu,
                               (g.first_col + col) * w.ui.m_menu.size.line + line)),
             line, col + 1, g)
    ELSE DrawMenuGrid(
             MenuCell(w, Coord(line, w.ui.m_menu.size.column - 1),
                      <<DisplayAtom(1, "default")>>, w.ui.m_menu.bg),
             line + 1, 0, g)

\* the scrollbar's mark: its height and its first line
MarkOf(win_height, mark_height, first_col, menu_cols, columns) ==
    [mark_height |-> mark_height,
     mark_line   |-> CDiv((win_height - mark_height) * first_col,
                          Max(1, menu_cols - columns))]

\* the geometry of a grid menu, as draw_menu computes it (size.line # 0)
MenuScrollbar(menu) ==
    [win_height   |-> menu.size.line,
     column_width |-> CDiv(menu.size.column - 1, menu.columns),
     first_col    |-> CDiv(menu.first_item, menu.size.line),
     mark |-> MarkOf(menu.size.line,
                     Min(div_round_up(sq(menu.size.line),
                                      div_round_up(Len(menu.items), menu.columns)),
                         menu.size.line),
                     CDiv(menu.first_item, menu.size.line),
                     div_round_up(Len(menu.items), menu.size.line),
                     menu.columns)]

\* draw_menu of a horizontal menu (m_menu.columns = 0)
DrawMenuLine(w, win_width) ==
    [MenuCell(DrawMenuItems(MenuCell(w, ZeroCoord, <<DisplayAtom(2, "default")>>,
                                     w.ui.m_menu.bg),
                            w.ui.m_menu.first_item, 0, win_width),
              Coord(0, win_width + 3), <<DisplayAtom(1, "default")>>, w.ui.m_menu.bg)
        EXCEPT !.ui.m_dirty = TRUE]

\* a division by m_menu.size.line = 0 is undefined behaviour
draw_menu(w) ==
    IF ~Present(w.ui.m_menu) THEN w
    ELSE IF w.ui.m_menu.columns = 0 THEN DrawMenuLine(w, w.ui.m_menu.size.column - 4)
    ELSE IF w.ui.m_menu.size.line = 0 THEN [w EXCEPT !.ub = TRUE]
    ELSE [DrawMenuGrid(w, 0, 0, MenuScrollbar(w.ui.m_menu)) EXCEPT !.ui.m_dirty = TRUE]

\* the info is shown again, with what m_info holds, if it is shown
ReshowInfo(w) == IF Present(w.ui.m_info) THEN InfoReshow(w) ELSE w

MenuColumns(style, max_width, longest) ==
    IF style = "Search" THEN 0
    ELSE IF style = "Inline" THEN 1
    ELSE Max(CDiv(max_width, longest + 1), 1)

MenuHeight(style, anchor, dim, item_count, columns) ==
    IF style = "Search" THEN 1
    ELSE Min(Min(height_limit(style), Max(anchor.line, dim.line - anchor.line - 1)),
             div_round_up(item_count, columns))

MenuMaxLen(columns, item_count, max_width) ==
    IF columns > 1 /\ item_count > 1 THEN CDiv(max_width, columns) - 1 ELSE max_width

\* anchor is the anchor after "anchor.line += content_line_offset()"
MenuLine(style, top, anchor, dim, height) ==
    IF style = "Search" THEN (IF top THEN 0 ELSE dim.line)
    ELSE IF style # "Inline" THEN (IF top THEN 1 ELSE dim.line - height)
    ELSE IF anchor.line + 1 + height > dim.line THEN anchor.line - height
    ELSE anchor.line + 1

MenuColumn(style, anchor, dim, longest) ==
    IF style = "Search" THEN CDiv(dim.column, 2)
    ELSE Max(0, Min(anchor.column, dim.column - longest - 1))

MenuWidth(style, dim, longest) ==
    IF style = "Search" THEN dim.column - CDiv(dim.column, 2)
    ELSE IF style = "Inline" THEN Min(longest + 1, dim.column)
    ELSE dim.column

MenuAnchor(w, style, anchor) ==
    IF style = "Inline" THEN [anchor EXCEPT !.line = @ + content_line_offset(w)]
    ELSE anchor

\* menu_show from the loop over the items to m_menu.first_item = 0
MenuCreate(w, items, anchor, style, longest, columns, height) ==
    [w EXCEPT !.ui.m_menu =
        [WindowCreate(@, Coord(MenuLine(style, w.ui.m_status_on_top, anchor,
                                        w.ui.m_dimensions, height),
                               MenuColumn(style, anchor, w.ui.m_dimensions, longest)),
                      Coord(height, MenuWidth(style, w.ui.m_dimensions, longest)))
            EXCEPT !.items = [i \in 1..Len(items) |->
                                 TrimTo(items[i],
                                        MenuMaxLen(columns, Len(items),
                                                   w.ui.m_dimensions.column - 1))],
                   !.columns = columns,
                   !.selected_item = Len(items),
                   !.first_item = 0]]

MenuLayout(w, items, anchor, style, longest, columns) ==
    MenuCreate(w, items, MenuAnchor(w, style, anchor), style, longest, columns,
               MenuHeight(style, anchor, w.ui.m_dimensions, Len(items), columns))

\* menu_show after the assignments to m_menu's faces, style and anchor
MenuShown(w, items, anchor, style) ==
    IF w.ui.m_dimensions.column <= 2 THEN w
    ELSE ReshowInfo(draw_menu(
             MenuLayout(w, items, anchor, style, Longest(items, 1),
                        MenuColumns(style, w.ui.m_dimensions.column - 1,
                                    Longest(items, 1)))))

MenuDestroy(w) ==
    IF Present(w.ui.m_menu)
    THEN [w EXCEPT !.ui.m_menu = WindowDestroy(@), !.ui.m_dirty = TRUE]
    ELSE w

menu_show(w, items, anchor, fg, bg, style) ==
    MenuShown([MenuDestroy(w) EXCEPT !.ui.m_menu.fg = fg, !.ui.m_menu.bg = bg,
                                     !.ui.m_menu.style = style,
                                     !.ui.m_menu.anchor = anchor],
              items, anchor, style)

RECURSIVE FirstShown(_, _, _, _, _, _)
\* the loop of menu_select over the items 0..selected of a horizontal menu
FirstShown(items, i, selected, width, first, item_col) ==
    IF i > selected THEN first
    ELSE IF item_col + DisplayLength(items[i + 1]) + 1 > width
    THEN FirstShown(items, i + 1, selected, width, i, DisplayLength(items[i + 1]) + 1)
    ELSE FirstShown(items, i + 1, selected, width, first,
                    item_col + DisplayLength(items[i + 1]) + 1)

\* m_menu.first_item of a grid menu after menu_select (size.line # 0)
GridFirst(menu, selected_col, first_col, menu_cols) ==
    IF selected_col >= first_col + menu.columns
    THEN Min(selected_col, menu_cols - menu.columns) * menu.size.line
    ELSE IF selected_col < first_col THEN selected_col * menu.size.line
    ELSE menu.first_item

\* m_menu.first_item after menu_select
MenuFirst(menu, selected) ==
    IF selected < 0 \/ selected >= Len(menu.items) THEN 0
    ELSE IF menu.columns = 0
    THEN FirstShown(menu.items, 0, selected, menu.size.column - 3, 0, 0)
    ELSE GridFirst(menu, CDiv(selected, menu.size.line),
                   CDiv(menu.first_item, menu.size.line),
                   div_round_up(Len(menu.items), menu.size.line))

\* a division by m_menu.size.line = 0 is undefined behaviour
menu_select(w, selected) ==
    IF /\ selected >= 0 /\ selected < Len(w.ui.m_menu.items)
       /\ w.ui.m_menu.columns # 0 /\ w.ui.m_menu.size.line = 0
    THEN [w EXCEPT !.ub = TRUE]
    ELSE draw_menu([w EXCEPT
             !.ui.m_menu.selected_item =
                 IF selected < 0 \/ selected >= Len(w.ui.m_menu.items)
                 THEN -1 ELSE selected,
             !.ui.m_menu.first_item = MenuFirst(w.ui.m_menu, selected)])

menu_hide(w) ==
    IF ~Present(w.ui.m_menu) THEN w
    ELSE ReshowInfo([w EXCEPT !.ui.m_menu = [WindowDestroy(@) EXCEPT !.items = <<>>],
                              !.ui.m_dirty = TRUE])

(***************************************************************************)
(* The input decoder.  A reader result is [key, q, ms, kill]: the          *)
(* Optional<Key>, the bytes left on stdin, m_mouse_state, and whether      *)
(* parse_key sent SIGTSTP.                                                 *)
(***************************************************************************)
\* get_char: [c, q], c = -1 when no byte is readable
get_char(q) == IF q = <<>> THEN [c |-> -1, q |-> q] ELSE [c |-> Head(q), q |-> Tail(q)]

\* get_char().value_or(d)
get_char_or(q, d) == IF q = <<>> THEN [c |-> d, q |-> q] ELSE [c |-> Head(q), q |-> Tail(q)]

control(c) == c % 32

\* utf8::codepoint over the CharIterator: the lead byte c, then the
\* continuation bytes from stdin (0 for one that is not readable)
utf8_codepoint(c, q) ==
    LET r1 == get_char_or(q, 0)
        r2 == get_char_or(r1.q, 0)
        r3 == get_char_or(r2.q, 0)
    IN  IF c < 128 THEN [cp |-> c, q |-> q]
        ELSE IF c \div 32 = 6
        THEN [cp |-> (c % 32) * 64 + (r1.c % 64), q |-> r1.q]
        ELSE IF c \div 16 = 14
        THEN [cp |-> (c % 16) * 4096 + (r1.c % 64) * 64 + (r2.c % 64), q |-> r2.q]
        ELSE IF c \div 8 = 30
        THEN [cp |-> (c % 8) * 262144 + (r1.c % 64) * 4096 + (r2.c % 64) * 64 + (r3.c % 64),
              q |-> r3.q]
        ELSE [cp |-> c, q |-> q]

Read(k, q, ms) == [key |-> k, q |-> q, ms |-> ms, kill |-> FALSE]

parse_key(c, q, ms) ==
    IF c = control(109) \/ c = control(106) THEN Read(Some(Key({}, KeyReturn)), q, ms)
    ELSE IF c = control(105) THEN Read(Some(Key({}, KeyTab)), q, ms)
    ELSE IF c = control(104) THEN Read(Some(Key({}, KeyBackspace)), q, ms)
    ELSE IF c = control(122) THEN [Read(Some(DefaultKey), q, ms) EXCEPT !.kill = TRUE]
    ELSE IF c < 27 THEN Read(Some(ctrl(c - 1 + 97)), q, ms)
    ELSE IF c = 127 THEN Read(Some(Key({}, KeyBackspace)), q, ms)
    ELSE LET u == utf8_codepoint(c, q) IN Read(Some(Key({}, u.cp)), u.q, ms)

parse_mask(mask) ==
    (IF BitSet(mask, 1) THEN {"Shift"} ELSE {})
    \cup (IF BitSet(mask, 2) THEN {"Alt"} ELSE {})
    \cup (IF BitSet(mask, 4) THEN {"Control"} ELSE {})

NoParams == [i \in 0..15 |-> 0]

RECURSIVE ParamLoop_unbounded(_, _, _, _)
\* a loop over the parameters that does not stop at the 16th separator (a
\* write past the array is lost)
ParamLoop_unbounded(c, q, count, params) ==
    IF ~(c >= 48 /\ c <= 63)
    THEN [ok |-> TRUE, c |-> c, q |-> q, params |-> params, count |-> count]
    ELSE LET n == get_char_or(q, 255)
         IN  IF c >= 48 /\ c <= 57
             THEN ParamLoop_unbounded(n.c, n.q, count,
                      IF count \in DOMAIN params
                      THEN [params EXCEPT ![count] = params[count] * 10 + c - 48]
                      ELSE params)
             ELSE IF c = 59
             THEN ParamLoop_unbounded(n.c, n.q, count + 1, params)
             ELSE [ok |-> FALSE, c |-> c, q |-> q, params |-> params, count |-> count]

RECURSIVE ParamLoop(_, _, _, _)
\* the for loop of parse_csi: [ok, c, q, params, count]
ParamLoop(c, q, count, params) ==
    IF ~(count < 16 /\ c >= 48 /\ c <= 63)
    THEN [ok |-> TRUE, c |-> c, q |-> q, params |-> params, count |-> count]
    ELSE LET n == get_char_or(q, 255)
         IN  IF c >= 48 /\ c <= 57
             THEN ParamLoop(n.c, n.q, count,
                            [params EXCEPT ![count] = params[count] * 10 + c - 48])
             ELSE IF c = 59
             THEN ParamLoop(n.c, n.q, count + 1, params)
             ELSE [ok |-> FALSE, c |-> c, q |-> q, params |-> params, count |-> count]

\* a mouse_button that keeps the button tracked at its release
mouse_button_sticky(mod, coord, left, release, q, ms) ==
    LET mask == IF left THEN 1 ELSE 2
    IN  IF ~release
        THEN Read(Some(Key(mod \cup {IF BitSet(ms, mask) THEN "MousePos"
                                     ELSE IF left THEN "MousePressLeft"
                                     ELSE "MousePressRight"}, coord)),
                  q, SetBit(ms, mask))
        ELSE Read(Some(Key(mod \cup {IF left THEN "MouseReleaseLeft"
                                     ELSE "MouseReleaseRight"}, coord)),
                  q, ms)

mouse_button(mod, coord, left, release, q, ms) ==
    LET mask == IF left THEN 1 ELSE 2
    IN  IF ~release
        THEN Read(Some(Key(mod \cup {IF BitSet(ms, mask) THEN "MousePos"
                                     ELSE IF left THEN "MousePressLeft"
                                     ELSE "MousePressRight"}, coord)),
                  q, SetBit(ms, mask))
        ELSE Read(Some(Key(mod \cup {IF left THEN "MouseReleaseLeft"
                                     ELSE "MouseReleaseRight"}, coord)),
                  q, ClearBit(ms, mask))

mouse_scroll(mod, down, q, ms, wheel) ==
    Read(Some(Key(mod \cup {"Scroll"}, Codepoint((IF down THEN 1 ELSE -1) * wheel))), q, ms)

\* a switch on b & 0x43 whose X10 release looks at the right button first
MouseEvent_right_first(c, sgr, sel, mod, coord, q, ms, wheel) ==
    IF sel = 0 THEN mouse_button(mod, coord, TRUE, c = 109, q, ms)
    ELSE IF sel = 2 THEN mouse_button(mod, coord, FALSE, c = 109, q, ms)
    ELSE IF sel = 3 /\ sgr THEN Read(NoKey, q, ms)
    ELSE IF sel = 3 /\ BitSet(ms, 2) THEN mouse_button(mod, coord, FALSE, TRUE, q, ms)
    ELSE IF sel = 3 /\ BitSet(ms, 1) THEN mouse_button(mod, coord, TRUE, TRUE, q, ms)
    ELSE IF sel = 64 THEN mouse_scroll(mod, FALSE, q, ms, wheel)
    ELSE IF sel = 65 THEN mouse_scroll(mod, TRUE, q, ms, wheel)
    ELSE Read(Some(Key({"MousePos"}, coord)), q, ms)

\* the switch on b & 0x43 (sel) of a mouse report
MouseEvent(c, sgr, sel, mod, coord, q, ms, wheel) ==
    IF sel = 0 THEN mouse_button(mod, coord, TRUE, c = 109, q, ms)
    ELSE IF sel = 2 THEN mouse_button(mod, coord, FALSE, c = 109, q, ms)
    ELSE IF sel = 3 /\ sgr THEN Read(NoKey, q, ms)
    ELSE IF sel = 3 /\ BitSet(ms, 1) THEN mouse_button(mod, coord, TRUE, TRUE, q, ms)
    ELSE IF sel = 3 /\ BitSet(ms, 2) THEN mouse_button(mod, coord, FALSE, TRUE, q, ms)
    ELSE IF sel = 64 THEN mouse_scroll(mod, FALSE, q, ms, wheel)
    ELSE IF sel = 65 THEN mouse_scroll(mod, TRUE, q, ms, wheel)
    ELSE Read(Some(Key({"MousePos"}, coord)), q, ms)

\* a mouse report with button b at column x and line y
MouseReport(c, sgr, b, x, y, q, ms, offset, wheel) ==
    MouseEvent(c, sgr, (b % 4) + 64 * ((b \div 64) % 2), parse_mask((b \div 4) % 8),
               encode_coord(Coord(y - offset, x)), q, ms, wheel)

\* the three bytes of a report that is not SGR, each less 32
MouseY(c, b, x, ry, ms, offset, wheel) ==
    MouseReport(c, FALSE, b, x, ry.c - 32 - 1, ry.q, ms, offset, wheel)

MouseX(c, b, rx, ms, offset, wheel) ==
    MouseY(c, b, rx.c - 32 - 1, get_char_or(rx.q, 255), ms, offset, wheel)

MouseB(c, rb, ms, offset, wheel) ==
    MouseX(c, Codepoint(rb.c - 32), get_char_or(rb.q, 255), ms, offset, wheel)

\* the cases 'M' and 'm' of parse_csi
parse_mouse(c, private_mode, params, q0, ms, offset, wheel) ==
    IF private_mode = 60
    THEN MouseReport(c, TRUE, Codepoint(params[0]), params[1] - 1, params[2] - 1,
                     q0, ms, offset, wheel)
    ELSE IF c # 77 THEN Read(NoKey, q0, ms)
    ELSE MouseB(c, get_char_or(q0, 255), ms, offset, wheel)

\* a masked_key that takes the second parameter itself for the mask
masked_key_raw(params, key, q, ms) ==
    Read(Some(Key(parse_mask(params[1]), key)), q, ms)

masked_key(params, key, q, ms) ==
    Read(Some(Key(parse_mask(Max(params[1] - 1, 0)), key)), q, ms)

\* the case '~' of parse_csi
CsiTilde(p0, params, q, ms) ==
    CASE p0 = 2 -> masked_key(params, KeyInsert, q, ms)
      [] p0 = 3 -> masked_key(params, KeyDelete, q, ms)
      [] p0 = 5 -> masked_key(params, KeyPageUp, q, ms)
      [] p0 = 6 -> masked_key(params, KeyPageDown, q, ms)
      [] p0 = 7 -> masked_key(params, KeyHome, q, ms)
      [] p0 = 8 -> masked_key(params, KeyEnd, q, ms)
      [] p0 \in 11..15 -> masked_key(params, KeyF1 + p0 - 11, q, ms)
      [] p0 \in 17..21 -> masked_key(params, KeyF6 + p0 - 17, q, ms)
      [] p0 \in 23..24 -> masked_key(params, KeyF11 + p0 - 23, q, ms)
      [] OTHER -> Read(NoKey, q, ms)

\* parse_csi after the loop over the parameters (l: what the loop left)
CsiFinal(l, private_mode, ms, offset, wheel) ==
    IF ~l.ok \/ l.c < 64 \/ l.c > 126 THEN Read(NoKey, l.q, ms)
    ELSE CASE l.c = 65 -> masked_key(l.params, KeyUp, l.q, ms)
           [] l.c = 66 -> masked_key(l.params, KeyDown, l.q, ms)
           [] l.c = 67 -> masked_key(l.params, KeyRight, l.q, ms)
           [] l.c = 68 -> masked_key(l.params, KeyLeft, l.q, ms)
           [] l.c = 70 -> masked_key(l.params, KeyEnd, l.q, ms)
           [] l.c = 72 -> masked_key(l.params, KeyHome, l.q, ms)
           [] l.c = 80 -> masked_key(l.params, KeyF1, l.q, ms)
           [] l.c = 81 -> masked_key(l.params, KeyF2, l.q, ms)
           [] l.c = 82 -> masked_key(l.params, KeyF3, l.q, ms)
           [] l.c = 83 -> masked_key(l.params, KeyF4, l.q, ms)
           [] l.c = 126 -> CsiTilde(l.params[0], l.params, l.q, ms)
           [] l.c = 117 -> masked_key(l.params, Codepoint(l.params[0]), l.q, ms)
           [] l.c = 90 -> Read(Some(shift(KeyTab)), l.q, ms)
           [] l.c = 73 -> Read(Some(Key({}, KeyFocusIn)), l.q, ms)
           [] l.c = 79 -> Read(Some(Key({}, KeyFocusOut)), l.q, ms)
           [] l.c = 77 \/ l.c = 109 ->
                parse_mouse(l.c, private_mode, l.params, l.q, ms, offset, wheel)
           [] OTHER -> Read(NoKey, l.q, ms)

\* parse_csi after the private mode character (r: the character read next)
CsiParams(r, private_mode, ms, offset, wheel) ==
    CsiFinal(ParamLoop(r.c, r.q, 0, NoParams), private_mode, ms, offset, wheel)

\* parse_csi after its first character (r0)
CsiPrivate(r0, ms, offset, wheel) ==
    CsiParams(IF r0.c \in {63, 60, 61, 62} THEN get_char_or(r0.q, 255) ELSE r0,
              IF r0.c \in {63, 60, 61, 62} THEN r0.c ELSE 0,
              ms, offset, wheel)

parse_csi(q0, ms, offset, wheel) == CsiPrivate(get_char_or(q0, 255), ms, offset, wheel)

\* the switch of parse_ss3 on the character read (r)
Ss3Key(r, ms) ==
    CASE r.c = 65 -> Read(Some(Key({}, KeyUp)), r.q, ms)
      [] r.c = 66 -> Read(Some(Key({}, KeyDown)), r.q, ms)
      [] r.c = 67 -> Read(Some(Key({}, KeyRight)), r.q, ms)
      [] r.c = 68 -> Read(Some(Key({}, KeyLeft)), r.q, ms)
      [] r.c = 70 -> Read(Some(Key({}, KeyEnd)), r.q, ms)
      [] r.c = 72 -> Read(Some(Key({}, KeyHome)), r.q, ms)
      [] r.c = 80 -> Read(Some(Key({}, KeyF1)), r.q, ms)
      [] r.c = 81 -> Read(Some(Key({}, KeyF2)), r.q, ms)
      [] r.c = 82 -> Read(Some(Key({}, KeyF3)), r.q, ms)
      [] r.c = 83 -> Read(Some(Key({}, KeyF4)), r.q, ms)
      [] OTHER -> Read(NoKey, r.q, ms)

parse_ss3(q0, ms) == Ss3Key(get_char_or(q0, 255), ms)

\* value_or on the result of parse_csi / parse_ss3
value_or(r, k) == IF r.key = NoKey THEN [r EXCEPT !.key = Some(k)] ELSE r

\* alt() on the key of a reader result
AltOf(r) == [r EXCEPT !.key = Some(alt(r.key[1]))]

\* a get_next_key whose failed CSI or SS3 sequence gives no key
EscapeKey_no_fallback(n, ms, offset, wheel) ==
    IF n.c = 91 THEN parse_csi(n.q, ms, offset, wheel)
    ELSE IF n.c = 79 THEN parse_ss3(n.q, ms)
    ELSE AltOf(parse_key(n.c, n.q, ms))

\* get_next_key after ESC and one more character (n)
EscapeKey(n, ms, offset, wheel) ==
    IF n.c = 91 THEN value_or(parse_csi(n.q, ms, offset, wheel), alt(Key({}, 91)))
    ELSE IF n.c = 79 THEN value_or(parse_ss3(n.q, ms), alt(Key({}, 79)))
    ELSE AltOf(parse_key(n.c, n.q, ms))

\* a get_next_key that gives no key for an ESC with nothing after it
AfterEscape_waits(q, ms, offset, wheel) ==
    IF q = <<>> THEN Read(NoKey, q, ms)
    ELSE EscapeKey(get_char(q), ms, offset, wheel)

\* get_next_key after ESC (q: what is left on stdin)
AfterEscape(q, ms, offset, wheel) ==
    IF q = <<>> THEN Read(Some(Key({}, KeyEscape)), q, ms)
    ELSE EscapeKey(get_char(q), ms, offset, wheel)

\* the part of get_next_key that reads stdin
decode_key(q0, ms, offset, wheel) ==
    IF q0 = <<>> THEN Read(NoKey, q0, ms)
    ELSE IF Head(q0) # 27 THEN parse_key(Head(q0), Tail(q0), ms)
    ELSE AfterEscape(Tail(q0), ms, offset, wheel)

(***************************************************************************)
(* Resize, key fetch, drawing.                                             *)
(***************************************************************************)
\* what open("/dev/tty") and ioctl(TIOCGWINSZ) may answer
Queries == {"ok", "open_failed", "ioctl_failed"}

\* check_resize: the windows are destroyed, the main window is made anew
\* with the size the terminal answered, m_dimensions follows
ResizeWindows(w, ws) ==
    [w EXCEPT !.ui.m_window = WindowCreate(IF Present(@) THEN WindowDestroy(@) ELSE @,
                                           ZeroCoord, Coord(ws.rows, ws.cols)),
              !.ui.m_info = IF Present(@) THEN WindowDestroy(@) ELSE @,
              !.ui.m_menu = IF Present(@) THEN WindowDestroy(@) ELSE @,
              !.ui.m_dimensions = Coord(ws.rows - 1, ws.cols)]

\* check_resize: the menu is shown again if it was shown;
\* Vector<DisplayLine>(std::move(m_menu.items)) leaves m_menu.items empty
ResizeMenu(w, menu) ==
    IF menu
    THEN menu_show([w EXCEPT !.ui.m_menu.items = <<>>], w.ui.m_menu.items,
                   w.ui.m_menu.anchor, w.ui.m_menu.fg, w.ui.m_menu.bg, w.ui.m_menu.style)
    ELSE w

\* check_resize: the info is shown again if it was shown
ResizeInfo(w, info) == IF info THEN InfoReshow(w) ELSE w

\* check_resize after the size query succeeded
Resized(w, info, menu) ==
    set_resize_pending(ResizeInfo(ResizeMenu(ResizeWindows(w, w.os.winsize), menu), info))

\* a check_resize that announces a resize even though the size query failed
check_resize_announcing(w, force, q) ==
    IF ~force /\ ~w.os.resize_pending THEN w
    ELSE IF q # "ok"
    THEN set_resize_pending([w EXCEPT !.os.resize_pending = FALSE, !.query = q])
    ELSE Resized([w EXCEPT !.os.resize_pending = FALSE, !.query = q],
                 Present(w.ui.m_info), Present(w.ui.m_menu))

\* check_resize(force); q is the answer of the terminal to the size query
check_resize(w, force, q) ==
    IF ~force /\ ~w.os.resize_pending THEN w
    ELSE IF q # "ok" THEN [w EXCEPT !.os.resize_pending = FALSE, !.query = q]
    ELSE Resized([w EXCEPT !.os.resize_pending = FALSE, !.query = q],
                 Present(w.ui.m_info), Present(w.ui.m_menu))

dimensions(w) == w.ui.m_dimensions

\* get_next_key when sighup_raised is set
HangUp(w) ==
    [set_signal_handler(set_signal_handler(w, "SIGWINCH", "SIG_DFL"), "SIGCONT", "SIG_DFL")
        EXCEPT !.ui.m_window = IF Present(@) THEN WindowDestroy(@) ELSE @,
               !.ui.watcher = FALSE]

\* get_next_key returns what the decoder read (r)
KeyRead(w, r) ==
    [w |-> [w EXCEPT !.os.stdin = r.q, !.ui.m_mouse_state = r.ms],
     ret |-> r.key, kill |-> r.kill]

\* a get_next_key that reads stdin before it looks at m_resize_pending
NextKeyBytesFirst(w) ==
    IF w.ui.m_resize_pending /\ w.os.stdin = <<>>
    THEN [w |-> [w EXCEPT !.ui.m_resize_pending = FALSE],
          ret |-> Some(resize(dimensions(w))), kill |-> FALSE]
    ELSE KeyRead(w, decode_key(w.os.stdin, w.ui.m_mouse_state, content_line_offset(w),
                               w.ui.m_wheel_scroll_amount))

\* get_next_key after check_resize
NextKey(w) ==
    IF w.ui.m_resize_pending
    THEN [w |-> [w EXCEPT !.ui.m_resize_pending = FALSE],
          ret |-> Some(resize(dimensions(w))), kill |-> FALSE]
    ELSE KeyRead(w, decode_key(w.os.stdin, w.ui.m_mouse_state, content_line_offset(w),
                               w.ui.m_wheel_scroll_amount))

\* a get_next_key that hands out a pending Resize before it sees the hangup
get_next_key_resize_first(w, q) ==
    IF w.os.sighup_raised /\ ~w.ui.m_resize_pending
    THEN [w |-> HangUp(w), ret |-> NoKey, kill |-> FALSE]
    ELSE NextKey(check_resize(w, FALSE, q))

\* get_next_key: [w, ret, kill]; kill says that parse_key sent SIGTSTP to
\* the process group before it returned ret
get_next_key(w, q) ==
    IF w.os.sighup_raised THEN [w |-> HangUp(w), ret |-> NoKey, kill |-> FALSE]
    ELSE NextKey(check_resize(w, FALSE, q))

RECURSIVE DrawBufferLines(_, _, _, _)
\* the first loop of draw: one window line per line of the display buffer
DrawBufferLines(w, lines, line_index, default_face) ==
    IF lines = <<>> THEN w
    ELSE DrawBufferLines(
             DrawOn(MoveCursorOn(w, "m_window", Coord(line_index, 0)), "m_window",
                    lines[1], default_face),
             Tail(lines), line_index + 1, default_face)

RECURSIVE DrawPadding(_, _, _, _)
\* the second loop of draw: "~" lines down to the last content line
DrawPadding(w, line_index, last, face) ==
    IF ~(line_index < last) THEN w
    ELSE DrawPadding(
             DrawOn(MoveCursorOn(w, "m_window", Coord(line_index, 0)), "m_window",
                    <<DisplayAtom(1, "default")>>, face),
             line_index + 1, last, face)

\* draw after check_resize
DrawLines(w, display_buffer, default_face, padding_face) ==
    [DrawPadding(DrawBufferLines(w, display_buffer, content_line_offset(w), default_face),
                 content_line_offset(w) + Len(display_buffer),
                 dimensions(w).line + content_line_offset(w),
                 merge_faces(default_face, padding_face))
        EXCEPT !.ui.m_dirty = TRUE]

draw(w, display_buffer, default_face, padding_face, q) ==
    DrawLines(check_resize(w, FALSE, q), display_buffer, default_face, padding_face)

RECURSIVE DropCols(_, _)
\* DisplayLine::trim(first, ...): the line without its first n columns
DropCols(line, n) ==
    IF line = <<>> \/ n <= 0 THEN line
    ELSE IF line[1].len <= n THEN DropCols(Tail(line), n - line[1].len)
    ELSE <<[line[1] EXCEPT !.len = @ - n]>> \o Tail(line)

StatusLinePos(w) == IF w.ui.m_status_on_top THEN 0 ELSE w.ui.m_dimensions.line

\* the mode line cut to what remains of the status line, after an ellipsis
TrimmedModeLine(mode_line, mode_len, remaining) ==
    <<DisplayAtom(1, "default")>>
    \o TrimTo(DropCols(mode_line, mode_len + 2 - remaining), remaining - 2)

\* draw_status, the mode line: whole, cut, or not at all
DrawModeLine(w, mode_line, default_face, mode_len, remaining) ==
    IF mode_len < remaining
    THEN DrawOn(MoveCursorOn(w, "m_window",
                             Coord(StatusLinePos(w), w.ui.m_dimensions.column - mode_len)),
                "m_window", mode_line, default_face)
    ELSE IF remaining > 2
    THEN DrawOn(MoveCursorOn(w, "m_window",
                             Coord(StatusLinePos(w),
                                   w.ui.m_dimensions.column - remaining + 1)),
                "m_window", TrimmedModeLine(mode_line, mode_len, remaining), default_face)
    ELSE w

\* draw_status, the terminal's title
SetTitle(w) == IF w.ui.m_set_title THEN Emit(w, {Em("title", 0, 0)}) ELSE w

draw_status(w, status_line, mode_line, default_face) ==
    [SetTitle(DrawModeLine(
         [DrawOn(MoveCursorOn(w, "m_window", Coord(StatusLinePos(w), 0)), "m_window",
                 status_line, default_face)
             EXCEPT !.ui.m_status_len = DisplayLength(status_line)],
         mode_line, default_face, DisplayLength(mode_line),
         w.ui.m_dimensions.column - DisplayLength(status_line)))
        EXCEPT !.ui.m_dirty = TRUE]

set_on_key(w, callback) == force_signal([w EXCEPT !.ui.m_on_key = callback])

\* set_ui_options: o is [assistant, status_on_top, set_title, enable_mouse];
\* an assistant that is not one of the names leaves m_assistant as it is
set_ui_options(w, o) ==
    LET a  == IF o.assistant \in {"clippy", "cat", "dilbert"} THEN o.assistant
              ELSE IF o.assistant \in {"none", "off"} THEN "none"
              ELSE w.ui.m_assistant
        w1 == [w EXCEPT !.ui.m_assistant = a,
                        !.ui.m_status_on_top = o.status_on_top,
                        !.ui.m_set_title = o.set_title]
    IN  enable_mouse(w1, o.enable_mouse)

(***************************************************************************)
(* Construction, destruction, suspend and resume.                          *)
(***************************************************************************)
\* a constructor that sets the terminal up before it tests stdout
NCursesUI_setup_first(w, q) ==
    IF ~w.os.stdout_tty
    THEN [enable_mouse(set_raw_mode(setup_terminal(
              [w EXCEPT !.ui.m_original_termios = w.os.termios])), TRUE)
             EXCEPT !.os.phase = "failed"]
    ELSE [redraw(check_resize(
              set_signal_handler(
                  set_signal_handler(
                      set_signal_handler(
                          enable_mouse(set_raw_mode(setup_terminal(
                              [w EXCEPT !.ui.watcher = TRUE,
                                        !.ui.m_original_termios = w.os.termios])), TRUE),
                          "SIGWINCH", "resize_pending"),
                      "SIGHUP", "sighup_raised"),
                  "SIGTSTP", "suspend"), TRUE, q), FALSE)
             EXCEPT !.os.phase = "running"]

\* the constructor; q is the terminal's answer to the first size query
NCursesUI(w, q) ==
    IF ~w.os.stdout_tty
    THEN [w EXCEPT !.os.phase = "failed"]
    ELSE LET w1 == [w EXCEPT !.ui.watcher = TRUE,
                             !.ui.m_original_termios = w.os.termios]
             w2 == enable_mouse(set_raw_mode(setup_terminal(w1)), TRUE)
             w3 == set_signal_handler(
                       set_signal_handler(
                           set_signal_handler(w2, "SIGWINCH", "resize_pending"),
                           "SIGHUP", "sighup_raised"),
                       "SIGTSTP", "suspend")
         IN  [redraw(check_resize(w3, TRUE, q), FALSE) EXCEPT !.os.phase = "running"]

\* a destructor that leaves the terminal in raw mode
DestroyNCursesUI_raw(w) ==
    [set_signal_handler(
         set_signal_handler(
             set_signal_handler(restore_terminal(enable_mouse(w, FALSE)),
                                "SIGWINCH", "SIG_DFL"),
             "SIGCONT", "SIG_DFL"),
         "SIGTSTP", "SIG_DFL")
        EXCEPT !.ui.watcher = FALSE, !.os.phase = "destroyed"]

\* the destructor
DestroyNCursesUI(w) ==
    LET w1 == tcsetattr(restore_terminal(enable_mouse(w, FALSE)), w.ui.m_original_termios)
        w2 == set_signal_handler(
                  set_signal_handler(
                      set_signal_handler(w1, "SIGWINCH", "SIG_DFL"),
                      "SIGCONT", "SIG_DFL"),
                  "SIGTSTP", "SIG_DFL")
    IN  [w2 EXCEPT !.ui.watcher = FALSE, !.os.phase = "destroyed"]

\* the locals of suspend(), when it is not running
NoFrame ==
    [mouse_enabled |-> FALSE, current |-> "SIG_DFL", old_mask |-> {},
     from |-> "none", ret |-> NoKey, at |-> 0, termios_before |-> NoTermios]

\* a suspend that stops before it gives the terminal its termios back
suspend_stop_raw(w, from, ret) ==
    LET frame == [mouse_enabled |-> w.ui.m_mouse_enabled,
                  current  |-> w.os.handlers["SIGTSTP"],
                  old_mask |-> w.os.sigmask \cup {"SIGTSTP"},
                  from |-> from, ret |-> ret, at |-> 0,
                  termios_before |-> w.os.termios]
        w1 == restore_terminal(enable_mouse(w, FALSE))
        w2 == [set_signal_handler(w1, "SIGTSTP", "SIG_DFL")
                  EXCEPT !.os.sigmask = @ \ {"SIGTSTP"}]
    IN  [w2 EXCEPT !.os.susp = frame, !.os.phase = "stopped"]

\* suspend, down to raise(SIGTSTP): the process stops.  from says where
\* the signal was taken ("signal": between two operations; "parse_key":
\* inside get_next_key, which returns ret once the process goes on)
suspend_stop(w, from, ret) ==
    LET frame == [mouse_enabled |-> w.ui.m_mouse_enabled,
                  current  |-> w.os.handlers["SIGTSTP"],
                  old_mask |-> w.os.sigmask \cup {"SIGTSTP"},
                  from |-> from, ret |-> ret, at |-> 0,
                  termios_before |-> w.os.termios]
        w1 == restore_terminal(enable_mouse(w, FALSE))
        w2 == [set_signal_handler(w1, "SIGTSTP", "SIG_DFL")
                  EXCEPT !.os.sigmask = @ \ {"SIGTSTP"}]
        w3 == tcsetattr(w2, w2.ui.m_original_termios)
    IN  [w3 EXCEPT !.os.susp = frame, !.os.phase = "stopped"]

\* suspend, from raise(SIGTSTP) to sigprocmask(SIG_SETMASK): the termios
\* of before the program, the handler and the mask of before the stop
suspend_rearm(w) ==
    [set_signal_handler(tcsetattr(w, w.ui.m_original_termios), "SIGTSTP",
                        w.os.susp.current)
        EXCEPT !.os.sigmask = w.os.susp.old_mask]

\* a resume that forgets whether the mouse was enabled and enables it
suspend_resume_mouse_on(w, q) ==
    [refresh(enable_mouse(set_raw_mode(check_resize(setup_terminal(
         [set_signal_handler(tcsetattr(w, w.ui.m_original_termios), "SIGTSTP",
                             w.os.susp.current)
             EXCEPT !.os.sigmask = w.os.susp.old_mask]), TRUE, q)), TRUE), TRUE)
        EXCEPT !.os.sigmask = @ \ {"SIGTSTP"}, !.os.phase = "running",
               !.os.susp = NoFrame]

\* suspend, after raise(SIGTSTP) returned (SIGCONT)
suspend_resume(w, q) ==
    LET frame == w.os.susp
        w3 == check_resize(setup_terminal(suspend_rearm(w)), TRUE, q)
        w4 == refresh(enable_mouse(set_raw_mode(w3), frame.mouse_enabled), TRUE)
    IN  \* the handler returns: the mask of before the signal is back, and
        \* the locals of suspend() are gone
        [w4 EXCEPT !.os.sigmask = @ \ {"SIGTSTP"}, !.os.phase = "running",
                   !.os.susp = NoFrame]

\* signal_handler<&flag>
signal_handler(w, flag) == force_signal([w EXCEPT !.os[flag] = TRUE])

\* a watcher that reads one key for each event: an if for the while
watcher_once(ret) == FALSE

\* the loop of the stdin watcher goes on while get_next_key returns a key
watcher_continues(ret) == ret # NoKey

\* m_on_key(*key): the callback receives the key (at: the count of bytes
\* of this event read before the key's first)
on_key(delivered, key, at) == Append(delivered, [key |-> key, at |-> at])

(***************************************************************************)
(* The state machine.                                                      *)
(***************************************************************************)
Signals == {"SIGWINCH", "SIGHUP", "SIGTSTP", "SIGCONT"}

NewMenu ==
    [pos |-> ZeroCoord, size |-> ZeroCoord, cursor |-> ZeroCoord, lines |-> <<>>,
     items |-> <<>>, anchor |-> ZeroCoord, fg |-> "default", bg |-> "default",
     style |-> "Prompt", columns |-> 1, first_item |-> 0, selected_item |-> 0]

NewInfo ==
    [pos |-> ZeroCoord, size |-> ZeroCoord, cursor |-> ZeroCoord, lines |-> <<>>,
     title |-> 0, content |-> <<>>, anchor |-> ZeroCoord, face |-> "default",
     style |-> "Prompt"]

\* the sizes the terminal takes
BigSize == [rows |-> 9, cols |-> 20]

NarrowSize == [rows |-> 3, cols |-> 4]

TinySize == [rows |-> 3, cols |-> 2]

WinSizes == {BigSize, NarrowSize, TinySize}

\* what the terminal sends at once
Bursts == {<<97>>, <<27, 91, 65>>, <<26>>}

InitUi ==
    [m_original_termios |-> NoTermios, m_window |-> NewWindow, m_menu |-> NewMenu,
     m_info |-> NewInfo, m_dimensions |-> ZeroCoord,
     m_cursor |-> [mode |-> "Buffer", coord |-> ZeroCoord],
     m_dirty |-> FALSE, m_resize_pending |-> FALSE, m_mouse_enabled |-> FALSE,
     m_mouse_state |-> 0, m_status_on_top |-> FALSE, m_status_len |-> 0,
     m_set_title |-> TRUE, m_on_key |-> FALSE, m_assistant |-> "clippy",
     m_wheel_scroll_amount |-> 3, watcher |-> FALSE]

InitOs(tty, t) ==
    [phase |-> "init", pc |-> "idle", stdout_tty |-> tty, termios |-> t,
     modes |-> {25}, winsize |-> BigSize, stdin |-> <<>>,
     resize_pending |-> FALSE, sighup_raised |-> FALSE,
     handlers |-> [sg \in Signals |-> "SIG_DFL"], sigmask |-> {},
     forced |-> FALSE, susp |-> NoFrame]

\* what was seen of the last operation; input is what the model fixes at
\* the start: the bytes readable when the stdin event started, or the
\* arguments of the function that is applied
InitObs ==
    [op |-> "none", ret |-> NoKey, out |-> {}, query |-> "none", ub |-> FALSE,
     delivered |-> <<>>, nread |-> 0, input |-> <<>>]

Init ==
    /\ ui = InitUi
    /\ \E tty \in BOOLEAN, t \in InitialTermios : os = InitOs(tty, t)
    /\ obs = InitObs

\* the world an operation starts in
World == [ui |-> ui, os |-> os, out |-> {}, ub |-> FALSE, query |-> "none"]

\* the state an operation leaves: after undefined behaviour the process
\* either dies or goes on with what was computed
Commit(w, op, ret, delivered, nread) ==
    /\ ui' = w.ui
    /\ \E dies \in (IF w.ub THEN BOOLEAN ELSE {FALSE}) :
          os' = IF dies THEN [w.os EXCEPT !.phase = "crashed"] ELSE w.os
    /\ obs' = [op |-> op, ret |-> ret, out |-> w.out, query |-> w.query, ub |-> w.ub,
               delivered |-> delivered, nread |-> nread, input |-> obs.input]

\* the deliveries of a stdin event are kept while the event lasts
Done(w, op) ==
    IF w.os.pc = "drain" THEN Commit(w, op, NoKey, obs.delivered, obs.nread)
    ELSE Commit(w, op, NoKey, <<>>, 0)

Running == os.phase = "running"

Construct ==
    /\ os.phase = "init"
    /\ \E q \in Queries : Done(NCursesUI(World, q), "NCursesUI")

Destroy ==
    /\ Running /\ os.pc = "idle"
    /\ Done(DestroyNCursesUI(World), "~NCursesUI")

\* a stdin event takes in no more than the bounds allow
EventRoom == os.pc = "drain" => Len(obs.delivered) < MaxKeys

\* the terminal sends bytes
StdinInput ==
    /\ Running /\ EventRoom
    /\ \E b \in Bursts :
          /\ (IF os.pc = "drain" THEN obs.nread ELSE 0) + Len(os.stdin) + Len(b)
                <= MaxStdin
          /\ os' = [os EXCEPT !.stdin = @ \o b]
          /\ ui' = ui
          /\ obs' = [obs EXCEPT !.op = "input", !.out = {}, !.ret = NoKey,
                                !.query = "none", !.ub = FALSE]

\* the event loop runs the stdin watcher: its callback starts
StdinReadable ==
    /\ Running /\ os.pc = "idle" /\ ui.watcher
    /\ os.stdin # <<>> \/ os.forced
    /\ LET w == [World EXCEPT !.os.forced = FALSE,
                              !.os.pc = IF ui.m_on_key THEN "drain" ELSE "idle"]
       IN  Commit(w, "stdin_readable", NoKey, <<>>, 0)

\* what a turn of the watcher's loop leaves (r: what get_next_key returned,
\* read: the bytes it took from stdin)
Turn(r, read) ==
    IF r.kill
    THEN Commit([suspend_stop(r.w, "parse_key", r.ret) EXCEPT !.os.susp.at = obs.nread],
                "get_next_key_stopped", NoKey, obs.delivered, obs.nread + read)
    ELSE IF watcher_continues(r.ret)
    THEN Commit(r.w, "get_next_key", r.ret,
                on_key(obs.delivered, r.ret[1], obs.nread), obs.nread + read)
    ELSE Commit([r.w EXCEPT !.os.pc = "idle"], "get_next_key", r.ret,
                obs.delivered, obs.nread + read)

TurnOf(r) == Turn(r, Len(os.stdin) - Len(r.w.os.stdin))

\* one turn of the watcher's loop: get_next_key, then the callback
GetNextKey ==
    /\ Running /\ os.pc = "drain"
    /\ \E q \in Queries : TurnOf(get_next_key(World, q))

\* the terminal takes a size and sends SIGWINCH
SigWinch ==
    /\ os.phase \in {"running", "stopped"} /\ EventRoom
    /\ \E ws \in WinSizes :
          LET w == [World EXCEPT !.os.winsize = ws]
          IN  Done(IF os.handlers["SIGWINCH"] = "resize_pending"
                   THEN signal_handler(w, "resize_pending") ELSE w,
                   "SIGWINCH")

SigHup ==
    /\ Running /\ ~os.sighup_raised
    /\ os.handlers["SIGHUP"] = "sighup_raised"
    /\ Done(signal_handler(World, "sighup_raised"), "SIGHUP")

\* SIGTSTP between two operations: the handler runs suspend()
SigTstp ==
    /\ Running /\ EventRoom
    /\ os.handlers["SIGTSTP"] = "suspend"
    /\ Done(suspend_stop(World, "signal", NoKey), "SIGTSTP")

\* what SIGCONT leaves (w: the world after suspend() returned, ret: what
\* the interrupted get_next_key returns, if one was interrupted)
Resumed(w, from, ret, at) ==
    IF from # "parse_key" THEN Done(w, "SIGCONT")
    ELSE IF watcher_continues(ret)
    THEN Commit(w, "SIGCONT", ret, on_key(obs.delivered, ret[1], at), obs.nread)
    ELSE Commit([w EXCEPT !.os.pc = "idle"], "SIGCONT", ret, obs.delivered, obs.nread)

\* SIGCONT: suspend() goes on, and so does what the signal interrupted
SigCont ==
    /\ os.phase = "stopped"
    /\ \E q \in Queries :
          Resumed(suspend_resume(World, q), os.susp.from, os.susp.ret, os.susp.at)

(***************************************************************************)
(* The operations the client calls, with the arguments the model gives     *)
(* them.                                                                   *)
(***************************************************************************)
OneLine(n) == <<DisplayAtom(n, "default")>>

DisplayBuffers == {<<OneLine(3)>>}

MenuItemLists == {<<OneLine(5), OneLine(2)>>}

MenuStyles == {"Prompt", "Inline", "Search"}

InfoStyles == {"Prompt", "Inline"}

UiOptions ==
    {[assistant |-> a, status_on_top |-> t, set_title |-> TRUE, enable_mouse |-> m] :
        a \in {"clippy"}, t \in {FALSE}, m \in BOOLEAN}

Draw ==
    /\ Running
    /\ \E b \in DisplayBuffers, q \in Queries :
          Done(draw(World, b, "default", "padding", q), "draw")

DrawStatus ==
    /\ Running
    /\ Done(draw_status(World, OneLine(1), OneLine(2), "default"), "draw_status")

SetCursor ==
    /\ Running
    /\ \E mode \in {"Buffer", "Prompt"} :
          Done(set_cursor(World, mode, Coord(0, 1)), "set_cursor")

MenuShow ==
    /\ Running
    /\ \E items \in MenuItemLists, style \in MenuStyles :
          Done(menu_show(World, items, ZeroCoord, "fg", "bg", style), "menu_show")

MenuSelect ==
    /\ Running
    /\ \E i \in -1..1 : Done(menu_select(World, i), "menu_select")

MenuHide ==
    /\ Running
    /\ Done(menu_hide(World), "menu_hide")

InfoShow ==
    /\ Running
    /\ \E style \in InfoStyles :
          Done(info_show(World, 1, <<3>>, ZeroCoord, "info", style), "info_show")

InfoHide ==
    /\ Running
    /\ Done(info_hide(World), "info_hide")

Refresh ==
    /\ Running
    /\ \E force \in BOOLEAN : Done(refresh(World, force), "refresh")

SetOnKey ==
    /\ Running
    /\ \E callback \in BOOLEAN : Done(set_on_key(World, callback), "set_on_key")

SetUiOptions ==
    /\ Running
    /\ \E o \in UiOptions : Done(set_ui_options(World, o), "set_ui_options")

\* the terminal's life: construction, options, signals and destruction
Next ==
    \/ Construct
    \/ Destroy
    \/ SetOnKey
    \/ SetUiOptions
    \/ StdinReadable
    \/ GetNextKey
    \/ SigWinch
    \/ SigHup
    \/ SigTstp
    \/ SigCont

Spec == Init /\ [][Next]_vars

\* a constructed interface on a terminal
InitTty == ui = InitUi /\ os = InitOs(TRUE, CookedTermios) /\ obs = InitObs

\* the input: bytes arrive and the stdin watcher reads them
NextInput ==
    \/ Construct
    \/ SetOnKey
    \/ StdinInput
    \/ StdinReadable
    \/ GetNextKey
    \/ SigWinch
    \/ SigHup
    \/ SigCont

SpecInput == InitTty /\ [][NextInput]_vars

\* an interface that was constructed on a terminal, after the client read
\* the Resize key of the construction
InitDisplay ==
    LET r == get_next_key(
                 NCursesUI([ui |-> InitUi, os |-> InitOs(TRUE, CookedTermios),
                            out |-> {}, ub |-> FALSE, query |-> "none"], "ok"), "ok")
    IN  ui = r.w.ui /\ os = r.w.os /\ obs = InitObs

\* the display: what the client draws, shows, hides and refreshes
NextDisplay ==
    \/ Draw
    \/ DrawStatus
    \/ SetCursor
    \/ MenuShow
    \/ MenuSelect
    \/ MenuHide
    \/ InfoShow
    \/ InfoHide
    \/ Refresh

SpecDisplay == InitDisplay /\ [][NextDisplay]_vars

\* the display under resizes: the terminal takes a size, draw sees it
NextResize ==
    \/ SigWinch
    \/ Draw
    \/ MenuShow
    \/ MenuHide
    \/ InfoShow
    \/ InfoHide

SpecResize == InitDisplay /\ [][NextResize]_vars

\* the display after a hangup: the client goes on drawing
NextHangup ==
    \/ SigHup
    \/ SetOnKey
    \/ StdinReadable
    \/ GetNextKey
    \/ Draw
    \/ DrawStatus
    \/ SetCursor
    \/ Refresh

SpecHangup == InitDisplay /\ [][NextHangup]_vars

\* the byte strings the decoder is given: well-formed and malformed CSI
\* and SS3 sequences, modifier masks, mouse reports, prefixes before a
\* Shift+Up
ShiftUp == <<27, 91, 49, 59, 50, 65>>

SgrLeft(b, final) == <<27, 91, 60, 48 + b, 59, 51, 59, 50, final>>

Malformed ==
    {<<27, 91>>, <<27, 91, 49>>, <<27, 91, 49, 59>>, <<27, 91, 58>>, <<27, 91, 49, 58, 65>>,
     <<27, 91, 49, 32>>, <<27, 91, 88>>, <<27, 91, 49, 88, 97>>, <<27, 91, 57, 126>>,
     <<27, 91, 109>>, <<27, 79>>, <<27, 79, 88>>, <<27, 79, 88, 97>>}

Masked ==
    {<<27, 91, 49, 59, 49 + m, 65>> : m \in 0..7}
    \cup {<<27, 91, 65>>, <<27, 91, 49, 65>>, <<27, 91, 49, 59, 65>>, <<27, 91, 49, 59, 48, 65>>}

MouseRuns ==
    {SgrLeft(b, 77) \o SgrLeft(b, 77) \o SgrLeft(b, 109) \o SgrLeft(b, 77) : b \in {0, 4, 8}}

Prefixes ==
    {<<>>, <<97>>, <<65>>, <<97, 98>>, <<27>>, <<27, 91>>, <<27, 91, 49>>, <<27, 79>>,
     <<195>>, <<27, 27>>, <<27, 91, 88>>}

RECURSIVE Sevens(_)
\* n parameters "7;"
Sevens(n) == IF n = 0 THEN <<>> ELSE <<55, 59>> \o Sevens(n - 1)

\* a CSI sequence with n parameters 7 and one more that is empty, final 'A'
ManyParams(n) == <<27, 91>> \o Sevens(n) \o <<65>>

Streams ==
    Malformed \cup Masked \cup MouseRuns \cup {<<27, 27, 91, 65>>, <<27, 79, 65>>}
    \cup {<<27>>, <<27, 97>>, <<27, 13>>, <<27, 127>>, <<13>>, <<1>>}
    \cup {ManyParams(n) : n \in 15..17} \cup {<<27, 91, 59, 53, 65>>}
    \cup {p \o ShiftUp : p \in Prefixes}

\* an interface that runs its stdin watcher on bytes that are all readable
Started(status_on_top) ==
    set_on_key(
        set_ui_options(
            get_next_key(
                NCursesUI([ui |-> InitUi, os |-> InitOs(TRUE, CookedTermios),
                           out |-> {}, ub |-> FALSE, query |-> "none"], "ok"), "ok").w,
            [assistant |-> "clippy", status_on_top |-> status_on_top,
             set_title |-> TRUE, enable_mouse |-> TRUE]),
        TRUE)

InitDecode ==
    \E s \in Streams, t \in BOOLEAN :
        /\ ui = Started(t).ui
        /\ os = [Started(t).os EXCEPT !.stdin = s, !.forced = FALSE, !.pc = "drain"]
        /\ obs = [InitObs EXCEPT !.input = s]

\* the decoder: the stdin watcher reads the keys of the bytes
NextDecode ==
    \/ GetNextKey

SpecDecode == InitDecode /\ [][NextDecode]_vars

\* the most items a menu is shown with
MaxItems == 7

\* the terminals a menu is shown in
MenuSizes == {[rows |-> r, cols |-> c] : r \in {2, 3, 4, 12}, c \in {5, 8, 20}}

\* the interface constructed in a terminal of size ws, its first Resize read
InitMenu ==
    \E ws \in MenuSizes :
        LET r == get_next_key(
                     NCursesUI([ui |-> InitUi,
                                os |-> [InitOs(TRUE, CookedTermios) EXCEPT !.winsize = ws],
                                out |-> {}, ub |-> FALSE, query |-> "none"], "ok"), "ok")
        IN  ui = r.w.ui /\ os = r.w.os /\ obs = InitObs

\* menu_show with n items of one length
MenuShowItems ==
    /\ Running
    /\ \E n \in 1..MaxItems, len \in {1, 5}, style \in MenuStyles :
          Done(menu_show(World, [i \in 1..n |-> OneLine(len)], ZeroCoord, "fg", "bg", style),
               "menu_show")

\* menu_select with any index, in and out of the items
MenuSelectItem ==
    /\ Running
    /\ \E i \in -1..MaxItems : Done(menu_select(World, i), "menu_select")

\* the menu: shown, then selected in
NextMenu ==
    \/ MenuShowItems
    \/ MenuSelectItem

SpecMenu == InitMenu /\ [][NextMenu]_vars

\* the rectangles info_show passes to compute_pos: the dimensions, below
\* the status line if it is on top
PosRects == {Rect(Coord(off, 0), Coord(6, 8)) : off \in {0, 1}}

\* the menus to avoid, none of them empty
PosAvoids ==
    {Rect(Coord(l, c), Coord(2, sc)) : l \in {0, 2, 4}, c \in {0, 4}, sc \in {4, 8}}

PosAnchors == {Coord(l, c) : l \in 0..6, c \in {0, 3, 7}}

PosSizes == {Coord(l, c) : l \in 1..3, c \in {2, 8, 10}}

\* the test of info_show on what compute_pos returned: the box does not fit
DoesNotFit(anchor, size, rect) ==
    CoordLess(anchor, rect.pos) \/ CoordLess(RectEnd(rect), CoordAdd(anchor, size))

InitPos ==
    \E a \in PosAnchors, s \in PosSizes, r \in PosRects, t \in PosAvoids, p \in BOOLEAN :
        /\ ui = InitUi
        /\ os = InitOs(TRUE, CookedTermios)
        /\ obs = [InitObs EXCEPT !.input = [anchor |-> a, size |-> s, rect |-> r,
                                            to_avoid |-> t, prefer_above |-> p]]

\* compute_pos is applied to the arguments
ComputePos ==
    /\ obs.op = "none"
    /\ obs' = [obs EXCEPT !.op = "compute_pos",
                          !.ret = compute_pos(obs.input.anchor, obs.input.size,
                                              obs.input.rect, obs.input.to_avoid,
                                              obs.input.prefer_above)]
    /\ UNCHANGED <<ui, os>>

NextPos ==
    \/ ComputePos

SpecPos == InitPos /\ [][NextPos]_vars

\* the infos a client shows: titles by their column length, contents by
\* the column lengths of their lines
InfoTitles == {0, 12}

InfoContents == {<<3, 9>>}

InfoAnchors == {ZeroCoord, Coord(2, 4)}

AllInfoStyles == {"Prompt", "Inline", "InlineAbove", "InlineBelow", "MenuDoc", "Modal"}

\* info_show in every style
InfoShowAny ==
    /\ Running
    /\ \E title \in InfoTitles, content \in InfoContents, anchor \in InfoAnchors,
          style \in AllInfoStyles :
          Done(info_show(World, title, content, anchor, "info", style), "info_show")

\* the info box, over and beside a menu, in the terminals of InitMenu
NextInfo ==
    \/ MenuShow
    \/ MenuHide
    \/ InfoShowAny

SpecInfo == InitMenu /\ [][NextInfo]_vars

\* the mouse reports a terminal sends for the cell at column 3, line 2:
\* X10 (ESC [ M and three bytes) and SGR (ESC [ < b ; x ; y and M or m)
X10Report(b) == <<27, 91, 77, 32 + b, 32 + 3, 32 + 2>>

SgrReport(b, final) ==
    <<27, 91, 60>> \o (IF b >= 10 THEN <<48 + (b \div 10), 48 + (b % 10)>> ELSE <<48 + b>>)
    \o <<59, 51, 59, 50, final>>

MouseReports ==
    {[bytes |-> X10Report(b), sgr |-> FALSE, b |-> b, release |-> FALSE] :
        b \in {0, 2, 3, 64, 65}}
    \cup {[bytes |-> SgrReport(b, 77), sgr |-> TRUE, b |-> b, release |-> FALSE] :
             b \in {0, 2, 64, 65}}
    \cup {[bytes |-> SgrReport(b, 109), sgr |-> TRUE, b |-> b, release |-> TRUE] :
             b \in {0, 2}}

InitMouse ==
    \E t \in BOOLEAN :
        ui = Started(t).ui /\ os = Started(t).os /\ obs = InitObs

\* the terminal sends a mouse report while stdin is empty
MouseInput ==
    /\ Running /\ os.pc = "idle" /\ os.stdin = <<>>
    /\ \E r \in MouseReports :
          /\ os' = [os EXCEPT !.stdin = r.bytes]
          /\ ui' = ui
          /\ obs' = [InitObs EXCEPT !.op = "input", !.input = r]

\* the mouse: report after report, each read by the stdin watcher
NextMouse ==
    \/ MouseInput
    \/ StdinReadable
    \/ GetNextKey

SpecMouse == InitMouse /\ [][NextMouse]_vars

\* check_resize step by step, with SIGWINCH between its steps.  The
\* frame of check_resize: pc (where it stands), force (its argument), ws
\* (the winsize the ioctl filled), failed (the last size query failed), hit
\* (where check_resize stood when the last SIGWINCH came)
NoCheck ==
    [pc |-> "idle", force |-> FALSE, ws |-> BigSize, failed |-> FALSE, hit |-> "idle"]

\* the process with the frame of check_resize
WithFrame(o, frame) ==
    [f \in DOMAIN o \cup {"cr"} |-> IF f = "cr" THEN frame ELSE o[f]]

\* a check_resize that clears resize_pending after the size query
check_resize_late_clear(w, q) ==
    CASE w.os.cr.pc = "test" ->
            [w EXCEPT !.os.cr.pc = IF ~w.os.cr.force /\ ~w.os.resize_pending
                                   THEN "return" ELSE "query"]
      [] w.os.cr.pc = "query" ->
            IF q # "ok"
            THEN [w EXCEPT !.query = q, !.os.cr.failed = TRUE, !.os.cr.pc = "return"]
            ELSE [w EXCEPT !.query = q, !.os.cr.failed = FALSE,
                           !.os.cr.ws = w.os.winsize, !.os.cr.pc = "clear"]
      [] w.os.cr.pc = "clear" ->
            [w EXCEPT !.os.resize_pending = FALSE, !.os.cr.pc = "resize"]
      [] w.os.cr.pc = "resize" ->
            [set_resize_pending(
                 ResizeInfo(ResizeMenu(ResizeWindows(w, w.os.cr.ws),
                                       Present(w.ui.m_menu)),
                            Present(w.ui.m_info)))
                EXCEPT !.os.cr.pc = "return"]

\* one step of check_resize: the test of the flag, the clearing of the
\* flag, the size query (open and ioctl; q is the terminal's answer), and
\* the resize with the winsize that was read
check_resize_step(w, q) ==
    CASE w.os.cr.pc = "test" ->
            [w EXCEPT !.os.cr.pc = IF ~w.os.cr.force /\ ~w.os.resize_pending
                                   THEN "return" ELSE "clear"]
      [] w.os.cr.pc = "clear" ->
            [w EXCEPT !.os.resize_pending = FALSE, !.os.cr.pc = "query"]
      [] w.os.cr.pc = "query" ->
            IF q # "ok"
            THEN [w EXCEPT !.query = q, !.os.cr.failed = TRUE, !.os.cr.pc = "return"]
            ELSE [w EXCEPT !.query = q, !.os.cr.failed = FALSE,
                           !.os.cr.ws = w.os.winsize, !.os.cr.pc = "resize"]
      [] w.os.cr.pc = "resize" ->
            [set_resize_pending(
                 ResizeInfo(ResizeMenu(ResizeWindows(w, w.os.cr.ws),
                                       Present(w.ui.m_menu)),
                            Present(w.ui.m_info)))
                EXCEPT !.os.cr.pc = "return"]

InitRace ==
    /\ ui = Started(FALSE).ui
    /\ os = WithFrame(Started(FALSE).os, NoCheck)
    /\ obs = InitObs

\* the terminal takes a size and SIGWINCH is delivered, wherever
\* check_resize stands
RaceSigWinch ==
    /\ Running
    /\ \E ws \in WinSizes :
          Done(signal_handler([World EXCEPT !.os.winsize = ws, !.os.cr.hit = os.cr.pc],
                              "resize_pending"),
               "SIGWINCH")

\* get_next_key is called and calls check_resize()
RaceGetNextKey ==
    /\ Running /\ os.cr.pc = "idle" /\ ~os.sighup_raised
    /\ Done([World EXCEPT !.os.cr.pc = "test", !.os.cr.force = FALSE], "check_resize")

RaceStep ==
    /\ Running /\ os.cr.pc \in {"test", "clear", "query", "resize"}
    /\ \E q \in Queries : Done(check_resize_step(World, q), "check_resize_step")

\* check_resize returned: get_next_key goes on and returns
RaceReturn ==
    /\ Running /\ os.cr.pc = "return"
    /\ LET r == NextKey(World)
       IN  Commit([r.w EXCEPT !.os.cr.pc = "idle"], "get_next_key", r.ret, <<>>, 0)

\* the race of SIGWINCH with check_resize
NextRace ==
    \/ RaceSigWinch
    \/ RaceGetNextKey
    \/ RaceStep
    \/ RaceReturn

SpecRace == InitRace /\ [][NextRace]_vars

\* the sizes the terminal takes while the event loop runs
LiveSizes == {BigSize, NarrowSize, [rows |-> 2, cols |-> 20]}

LiveSigWinch ==
    /\ Running /\ EventRoom
    /\ \E ws \in LiveSizes :
          Done(signal_handler([World EXCEPT !.os.winsize = ws], "resize_pending"),
               "SIGWINCH")

\* a turn of the watcher's loop on a terminal that answers the size query
LiveGetNextKey ==
    /\ Running /\ os.pc = "drain"
    /\ TurnOf(get_next_key(World, "ok"))

\* the event loop with a callback installed, no hangup and a working size
\* query: the client shows and hides a menu, the terminal is resized
NextLive ==
    \/ LiveSigWinch
    \/ MenuShow
    \/ MenuHide
    \/ StdinReadable
    \/ LiveGetNextKey

\* the watcher's callback stands in its loop: a turn can be taken
InLoop == Running /\ os.pc = "drain"

\* the event loop is fair to the stdin watcher: a watcher that is ready or
\* forced is run, and its loop goes on until get_next_key returns no key
\* (the weak fairness of LiveGetNextKey, whose steps are possible exactly
\* in the states of InLoop, written with its two halves)
LiveFairness ==
    /\ WF_vars(StdinReadable)
    /\ ([]<>~InLoop) \/ ([]<><<LiveGetNextKey>>_vars)

SpecLive == InitMouse /\ [][NextLive]_vars /\ LiveFairness

(***************************************************************************)
(* The claims.                                                             *)
(***************************************************************************)
\* C1: a get_next_key that is called with a Resize pending and no hangup
\* returns Resize(dimensions), reads no byte of stdin and clears the pending
\* flag: the bytes that are readable stay for the later calls.
C1_ResizeBeforeBytes ==
    [][(obs'.op = "get_next_key" /\ ui.m_resize_pending /\ ~os.sighup_raised)
          => /\ obs'.ret = Some(resize(ui'.m_dimensions))
             /\ os'.stdin = os.stdin
             /\ ~ui'.m_resize_pending]_vars

\* a get_next_key found the Resize pending, with bytes readable, and
\* returned it
C1_Witness ==
    /\ obs.op = "get_next_key" /\ obs.query = "none"
    /\ obs.ret = Some(resize(ui.m_dimensions))
    /\ os.stdin # <<>> /\ ~ui.m_resize_pending

\* C2: a stdin event without a callback reads and delivers nothing; with a
\* callback every key get_next_key returns goes to the callback, after the
\* keys of the bytes before it, and the event ends (no hangup) only when
\* no byte is left to read.
C2_DrainInOrder ==
    [][/\ (obs'.op = "stdin_readable" /\ ~ui.m_on_key)
             => os'.stdin = os.stdin /\ os'.pc = "idle" /\ obs'.delivered = <<>>
       /\ (obs'.op = "get_next_key" /\ obs'.ret # NoKey)
             => /\ os'.pc = "drain"
                /\ obs'.delivered
                      = Append(obs.delivered, [key |-> obs'.ret[1], at |-> obs.nread])
                /\ \A i \in 1..Len(obs.delivered) : obs.delivered[i].at <= obs.nread
       /\ (obs'.op = "get_next_key" /\ obs'.ret = NoKey /\ ~os.sighup_raised)
             => os'.pc = "idle" /\ os'.stdin = <<>> /\ obs'.delivered = obs.delivered
      ]_vars

\* a stdin event ended after it delivered the keys of two bytes or more
C2_Witness ==
    /\ obs.op = "get_next_key" /\ os.pc = "idle" /\ ~os.sighup_raised
    /\ Len(obs.delivered) >= 2 /\ obs.nread >= 2 /\ os.stdin = <<>>

\* C3 as stated: the get_next_key after SIGHUP uninstalls the handlers the
\* interface installed (SIGWINCH, SIGHUP, SIGTSTP), destroys the main
\* window, stops watching stdin, returns no key and reads no byte.
C3_AllHandlersUninstalled ==
    [][(obs'.op = "get_next_key" /\ os.sighup_raised)
          => /\ \A sg \in {"SIGWINCH", "SIGHUP", "SIGTSTP"} :
                   os'.handlers[sg] = "SIG_DFL"
             /\ ~Present(ui'.m_window) /\ ~ui'.watcher
             /\ obs'.ret = NoKey /\ os'.stdin = os.stdin]_vars

\* C3: the get_next_key after SIGHUP sets SIGWINCH and SIGCONT to their
\* default action and leaves the handlers of SIGHUP and SIGTSTP, destroys
\* the main window, stops watching stdin, returns no key and reads no byte;
\* so does every get_next_key once SIGHUP is raised, whatever is pending.
C3_HangUp ==
    [][/\ os.sighup_raised
             => \A q \in Queries :
                   /\ get_next_key(World, q).ret = NoKey
                   /\ get_next_key(World, q).w.os.stdin = os.stdin
                   /\ get_next_key(World, q).w.ui.m_resize_pending = ui.m_resize_pending
       /\ (obs'.op = "get_next_key" /\ os.sighup_raised)
             => /\ os'.handlers
                      = [os.handlers EXCEPT !["SIGWINCH"] = "SIG_DFL",
                                            !["SIGCONT"] = "SIG_DFL"]
                /\ ~Present(ui'.m_window) /\ ~ui'.watcher
                /\ obs'.ret = NoKey /\ os'.stdin = os.stdin /\ os'.pc = "idle"
                /\ os'.sighup_raised
      ]_vars

\* get_next_key ran after SIGHUP with a Resize pending and bytes readable
C3_Witness ==
    /\ obs.op = "get_next_key" /\ os.sighup_raised /\ obs.ret = NoKey
    /\ ~ui.watcher /\ ~Present(ui.m_window)
    /\ ui.m_resize_pending /\ os.stdin # <<>>
    /\ os.handlers["SIGTSTP"] = "suspend"

\* C4 as stated: a handler of SIGWINCH, SIGHUP or SIGTSTP sets its flag
\* and wakes the loop; it leaves the windows, the menu, the info, the
\* dimensions, the termios and the terminal's modes and writes nothing.
C4_HandlersOnlyFlag ==
    [][obs'.op \in {"SIGWINCH", "SIGHUP", "SIGTSTP"}
          => /\ ui' = ui
             /\ os'.termios = os.termios /\ os'.modes = os.modes
             /\ os'.handlers = os.handlers
             /\ obs'.out = {}]_vars

\* C5 as stated: after SIGTSTP and SIGCONT the termios is the one of
\* before the suspend, the mouse is enabled iff it was, and a Resize key is
\* pending.
C5_ResizeAlwaysPending ==
    [][obs'.op = "SIGCONT"
          => /\ os'.termios = os.susp.termios_before
             /\ ui'.m_mouse_enabled = os.susp.mouse_enabled
             /\ ui'.m_resize_pending]_vars

\* C5: after SIGTSTP and SIGCONT the termios is the one of before the
\* suspend, the mouse is enabled iff it was, and a Resize key is pending
\* iff the size query of the resume succeeded or one was pending before.
C5_Resume ==
    [][obs'.op = "SIGCONT"
          => /\ os'.termios = os.susp.termios_before
             /\ os'.termios = RawOf(ui.m_original_termios)
             /\ ui'.m_mouse_enabled = os.susp.mouse_enabled
             /\ ui'.m_resize_pending = (obs'.query = "ok" \/ ui.m_resize_pending)]_vars

\* a resume whose size query succeeded, of an interface with the mouse off
C5_Witness ==
    /\ obs.op = "SIGCONT" /\ obs.query = "ok" /\ os.phase = "running"
    /\ ui.m_resize_pending /\ ~ui.m_mouse_enabled
    /\ os.termios = RawOf(ui.m_original_termios)

\* C6 as stated: m_original_termios is written at construction only, and
\* the destructor, the suspend and the hangup set the termios back to it.
C6_EveryExitRestores ==
    [][/\ obs'.op # "NCursesUI" => ui'.m_original_termios = ui.m_original_termios
       /\ (obs'.op \in {"~NCursesUI", "SIGTSTP", "get_next_key_stopped"}
              \/ (obs'.op = "get_next_key" /\ os.sighup_raised))
             => os'.termios = ui.m_original_termios]_vars

\* C6: m_original_termios is written at construction only, with the
\* termios of that moment; the destructor and the suspend set the termios
\* back to it, and the hangup leaves the termios as it is.
C6_OriginalTermios ==
    [][/\ obs'.op # "NCursesUI" => ui'.m_original_termios = ui.m_original_termios
       /\ (obs'.op = "NCursesUI" /\ os'.phase # "failed")
             => ui'.m_original_termios = os.termios
       /\ obs'.op \in {"~NCursesUI", "SIGTSTP", "get_next_key_stopped"}
             => os'.termios = ui.m_original_termios
       /\ (obs'.op = "get_next_key" /\ os.sighup_raised)
             => os'.termios = os.termios]_vars

\* the destructor ran on a terminal that was in raw mode
C6_Witness ==
    /\ obs.op = "~NCursesUI" /\ os.phase = "destroyed"
    /\ os.termios = ui.m_original_termios /\ os.termios \in InitialTermios
    /\ RawOf(os.termios) # os.termios

\* C7: a construction on a stdout that is no terminal fails; it leaves the
\* termios unread and unchanged, writes nothing and installs no handler.
C7_NoTtyNoEffect ==
    [][(obs'.op = "NCursesUI" /\ ~os.stdout_tty)
          => /\ os'.phase = "failed"
             /\ os'.termios = os.termios /\ os'.modes = os.modes
             /\ os'.handlers = os.handlers
             /\ ui'.m_original_termios = NoTermios
             /\ obs'.out = {}]_vars

\* a construction failed
C7_Witness ==
    /\ obs.op = "NCursesUI" /\ os.phase = "failed" /\ ~os.stdout_tty
    /\ \A sg \in Signals : os.handlers[sg] = "SIG_DFL"

\* C8: a check_resize that is forced or finds the signal's flag set, and
\* whose size query fails, leaves the whole interface (dimensions, windows,
\* menu, info, pending Resize) and writes nothing.
C8_FailedQueryKeepsAll ==
    Running =>
        \A force \in BOOLEAN, q \in Queries \ {"ok"} :
            (force \/ os.resize_pending)
               => /\ check_resize(World, force, q).ui = ui
                  /\ check_resize(World, force, q).out = {}
                  /\ check_resize(World, force, q).os
                        = [os EXCEPT !.resize_pending = FALSE]

\* a draw whose size query failed after the terminal took another size,
\* with a menu and an info shown and no Resize pending
C8_Witness ==
    /\ obs.op = "draw" /\ obs.query \in Queries \ {"ok"}
    /\ Present(ui.m_menu) /\ Present(ui.m_info) /\ ~ui.m_resize_pending
    /\ ui.m_dimensions # Coord(os.winsize.rows - 1, os.winsize.cols)

\* C9 as stated: check_resize does nothing when it is not forced and the
\* flag is not set; otherwise (the size query succeeding) the main window
\* is at (0,0) with rows lines, the dimensions are (rows-1, cols), a menu
\* that was shown is shown with the same items, anchor, faces and style, an
\* info that was shown is shown with the same title, content, anchor, face
\* and style, and a Resize is pending.
C9_ResizeReshows ==
    Running =>
        \A force \in BOOLEAN :
            LET r == check_resize(World, force, "ok")
            IN  IF ~force /\ ~os.resize_pending THEN r = World
                ELSE /\ Present(r.ui.m_window) /\ r.ui.m_window.pos = ZeroCoord
                     /\ Len(r.ui.m_window.lines) = os.winsize.rows
                     /\ r.ui.m_dimensions = Coord(os.winsize.rows - 1, os.winsize.cols)
                     /\ r.ui.m_resize_pending
                     /\ Present(ui.m_menu)
                           => /\ Present(r.ui.m_menu)
                              /\ r.ui.m_menu.items = ui.m_menu.items
                              /\ r.ui.m_menu.anchor = ui.m_menu.anchor
                              /\ r.ui.m_menu.fg = ui.m_menu.fg
                              /\ r.ui.m_menu.bg = ui.m_menu.bg
                              /\ r.ui.m_menu.style = ui.m_menu.style
                     /\ Present(ui.m_info)
                           => /\ Present(r.ui.m_info)
                              /\ r.ui.m_info.title = ui.m_info.title
                              /\ r.ui.m_info.content = ui.m_info.content
                              /\ r.ui.m_info.anchor = ui.m_info.anchor
                              /\ r.ui.m_info.face = ui.m_info.face
                              /\ r.ui.m_info.style = ui.m_info.style

\* C10 as stated: draw, draw_status, set_cursor, menu_show, menu_select,
\* menu_hide, info_show and info_hide set the dirty bit, which stays set
\* until a refresh clears it.
C10_DirtyAfterEveryMutation ==
    [][/\ obs'.op \in {"draw", "draw_status", "set_cursor", "menu_show",
                       "menu_select", "menu_hide", "info_show", "info_hide"}
             => ui'.m_dirty
       /\ (ui.m_dirty /\ obs'.op # "refresh") => ui'.m_dirty
       /\ obs'.op = "refresh" => ~ui'.m_dirty]_vars

\* C11 as stated: after a draw on a window every line of the window that
\* is not empty has a column length of exactly the window's width.
C11_LinesFillWidth ==
    ~obs.ub =>
        \A f \in {"m_window", "m_menu", "m_info"} :
            \A i \in 1..Len(ui[f].lines) :
                ui[f].lines[i] # <<>> => LineLength(ui[f].lines[i]) = ui[f].size.column

\* C12 as stated: whatever the client calls, and through resizes and the
\* hangup, no draw or clear_line accesses a line outside the window's
\* lines, every window has size.line lines, and its cursor column is within
\* 0..size.column.
C12_CursorInWindow ==
    /\ ~obs.ub
    /\ \A f \in {"m_window", "m_menu", "m_info"} :
          /\ Len(ui[f].lines) = ui[f].size.line
          /\ ui[f].cursor.column >= 0
          /\ ui[f].cursor.column <= ui[f].size.column

C14_MaskedUp ==
    obs.input \in Masked /\ obs.nread > 0 =>
        LET m == IF Len(obs.input) = 6 /\ obs.input[5] > 48 THEN obs.input[5] - 49 ELSE 0
        IN  /\ obs.nread = Len(obs.input)
            /\ os.stdin = <<>>
            /\ obs.delivered =
                  <<[key |-> Key({x \in {"Shift", "Alt", "Control"} :
                                     \/ x = "Shift" /\ m % 2 = 1
                                     \/ x = "Alt" /\ (m \div 2) % 2 = 1
                                     \/ x = "Control" /\ (m \div 4) % 2 = 1},
                                 KeyUp),
                     at |-> 0]>>

\* C14 witness: ESC [ 1 ; 8 A was read and gave Up with the three modifiers.
C14_Witness ==
    /\ obs.input = <<27, 91, 49, 59, 56, 65>>
    /\ obs.op = "get_next_key"
    /\ obs.ret = Some(Key({"Shift", "Alt", "Control"}, KeyUp))

\* C15: starting with no button tracked, the SGR report CSI < b ; x ; y M
\* with b & 0x43 = 0 gives MousePressLeft at (y-1-content_line_offset, x-1),
\* a further M report before a release gives MousePos, the report with the
\* same b and final m gives MouseReleaseLeft at the same coordinate, and the
\* next M report gives MousePressLeft again (the reports are 9 bytes each,
\* x = 3, y = 2).
C15_LeftButtonCycle ==
    obs.input \in MouseRuns =>
        \A i \in 1..Len(obs.delivered) :
            /\ obs.delivered[i].at = 9 * (i - 1)
            /\ obs.delivered[i].key.key
                  = (2 - 1 - (IF ui.m_status_on_top THEN 1 ELSE 0)) * 65536 + (3 - 1)
            /\ obs.delivered[i].key.mod
                  \cap {"MousePressLeft", "MousePressRight", "MousePos",
                        "MouseReleaseLeft", "MouseReleaseRight", "Scroll"}
                  = {<<"MousePressLeft", "MousePos", "MouseReleaseLeft", "MousePressLeft">>[i]}

\* C15 witness: press, motion, release and second press were all decoded,
\* with the status line on top.
C15_Witness ==
    /\ obs.input \in MouseRuns
    /\ ui.m_status_on_top
    /\ Len(obs.delivered) = 4
    /\ os.stdin = <<>>

\* C16 as stated: for a readable stream prefix ++ ESC [ 1 ; 2 A the calls of
\* get_next_key give Shift+Up exactly once, and no call gives a key for the
\* final byte 'A' other than that Shift+Up.
C16_Resync ==
    /\ obs.input \in {p \o ShiftUp : p \in Prefixes}
    /\ os.pc = "idle" /\ os.stdin = <<>>
    => /\ Cardinality({i \in 1..Len(obs.delivered) :
                          obs.delivered[i].key = shift(KeyUp)}) = 1
       /\ \A i \in 1..Len(obs.delivered) : obs.delivered[i].at # Len(obs.input) - 1

\* C17 as stated: the readable input ESC ESC [ A decodes to the single key
\* Alt+Up, and no other key is produced for these four bytes.
C17_EscEscUp ==
    obs.input = <<27, 27, 91, 65>> /\ obs.nread > 0 =>
        obs.delivered = <<[key |-> alt(Key({}, KeyUp)), at |-> 0]>>

\* C18 as stated: when the decoder reads a Ctrl-Z byte it sends SIGTSTP and
\* emits no key for that byte: the callback is not invoked when the process
\* resumes inside parse_key, and the first key the callback gets after the
\* resume is Resize.
C18_CtrlZNoKey ==
    [][/\ os.phase = "stopped" /\ os.susp.from = "parse_key"
          => obs'.delivered = obs.delivered
       /\ obs.op = "SIGCONT" /\ Len(obs'.delivered) > Len(obs.delivered)
          => "Resize" \in obs'.delivered[Len(obs'.delivered)].key.mod]_vars

\* C19 as stated: in grid mode, after menu_show and any menu_select calls
\* with items > 0, the scrollbar draw_menu computes has mark_line >= 0,
\* mark_line + mark_height <= height and mark_height >= 1.
C19_ScrollbarBounds ==
    /\ obs.op \in {"menu_show", "menu_select"}
    /\ Present(ui.m_menu) /\ ui.m_menu.columns # 0 /\ Len(ui.m_menu.items) > 0
    => /\ ~obs.ub
       /\ ui.m_menu.size.line > 0
       /\ MenuScrollbar(ui.m_menu).mark.mark_line >= 0
       /\ MenuScrollbar(ui.m_menu).mark.mark_height >= 1
       /\ MenuScrollbar(ui.m_menu).mark.mark_line + MenuScrollbar(ui.m_menu).mark.mark_height
             <= ui.m_menu.size.line

\* the box of size at pos lies within rect
BoxWithin(pos, size, rect) ==
    /\ pos.line >= rect.pos.line /\ pos.column >= rect.pos.column
    /\ pos.line + size.line <= RectEnd(rect).line
    /\ pos.column + size.column <= RectEnd(rect).column

\* the box of size at pos and the rectangle r have a cell in common
BoxesMeet(pos, size, r) ==
    /\ pos.line < RectEnd(r).line /\ r.pos.line < pos.line + size.line
    /\ pos.column < RectEnd(r).column /\ r.pos.column < pos.column + size.column

\* C20 as stated: for every anchor, size, rect and non-empty to_avoid,
\* compute_pos returns a position whose box is within rect or one that the
\* caller rejects, and never one whose box meets to_avoid when a position
\* within rect at the same column does not meet it.
C20_WithinOrRejected ==
    obs.op = "compute_pos" =>
        /\ \/ BoxWithin(obs.ret, obs.input.size, obs.input.rect)
           \/ DoesNotFit(obs.ret, obs.input.size, obs.input.rect)
        /\ BoxesMeet(obs.ret, obs.input.size, obs.input.to_avoid)
           => \A l \in 0..7 :
                 BoxWithin(Coord(l, obs.ret.column), obs.input.size, obs.input.rect)
                 => BoxesMeet(Coord(l, obs.ret.column), obs.input.size, obs.input.to_avoid)

\* C21 as stated: after any info_show, in every style and for every anchor
\* and terminal size, the info window is present only if its whole
\* rectangle lies inside the content rect, on the line and on the column
\* axis, and no error is raised.
C21_InfoInsideRect ==
    obs.op = "info_show" =>
        /\ ~obs.ub
        /\ Present(ui.m_info) => BoxWithin(ui.m_info.pos, ui.m_info.size, InfoRect(World))

\* C22: in the suspend path, when the process stops mouse reporting is
\* off, the alternate screen is left with the cursor visible, termios is
\* original_termios, and SIGTSTP has its default handler and is unblocked;
\* after the resume the handler and the signal mask of before are back
\* while the terminal is still as it was left (no raw mode, no alternate
\* screen, no resize forced, nothing redrawn), and when suspend returns raw
\* mode and the alternate screen are in place and the handler is armed.
C22_SuspendOrder ==
    /\ os.phase = "stopped"
       => /\ os.modes \cap MouseModes = {}
          /\ 1049 \notin os.modes /\ 25 \in os.modes
          /\ os.termios = ui.m_original_termios
          /\ os.handlers["SIGTSTP"] = "SIG_DFL"
          /\ "SIGTSTP" \notin os.sigmask
          /\ suspend_rearm(World).os.handlers["SIGTSTP"] = "suspend"
          /\ suspend_rearm(World).os.sigmask = os.susp.old_mask
          /\ "SIGTSTP" \in suspend_rearm(World).os.sigmask
          /\ suspend_rearm(World).os.termios = ui.m_original_termios
          /\ suspend_rearm(World).os.modes = os.modes
          /\ suspend_rearm(World).ui = ui
          /\ suspend_rearm(World).out = {}
    /\ obs.op = "SIGCONT"
       => /\ os.handlers["SIGTSTP"] = "suspend"
          /\ os.termios = RawOf(ui.m_original_termios)
          /\ 1049 \in os.modes
          /\ Em("mode", 1049, 1) \in obs.out

\* C22 witness: the process is stopped by a suspend that found the mouse
\* enabled and raw mode in place.
C22_Witness ==
    /\ os.phase = "stopped"
    /\ os.susp.mouse_enabled
    /\ os.susp.termios_before = RawOf(ui.m_original_termios)

\* the key the first get_next_key call gave for the bytes at the start of
\* stdin
C23_Expected(input, offset, wheel) ==
    IF input[1] # 27 THEN parse_key(input[1], Tail(input), 0).key[1]
    ELSE IF Len(input) = 1 THEN Key({}, KeyEscape)
    ELSE IF input[2] = 91
    THEN (IF parse_csi(Tail(Tail(input)), 0, offset, wheel).key = NoKey
          THEN alt(Key({}, 91))
          ELSE parse_csi(Tail(Tail(input)), 0, offset, wheel).key[1])
    ELSE IF input[2] = 79
    THEN (IF parse_ss3(Tail(Tail(input)), 0).key = NoKey
          THEN alt(Key({}, 79))
          ELSE parse_ss3(Tail(Tail(input)), 0).key[1])
    ELSE alt(parse_key(input[2], Tail(Tail(input)), 0).key[1])

\* C23: an ESC with no further readable byte is the key Escape; ESC '['
\* is what parse_csi returns, or Alt+'[' if it returns nothing; ESC 'O' is
\* what parse_ss3 returns, or Alt+'O' if it returns nothing; ESC and any
\* other byte n is Alt(parse_key(n)); a byte other than ESC is decoded by
\* parse_key alone.
C23_TopLevelEscape ==
    obs.nread > 0 =>
        /\ Len(obs.delivered) >= 1
        /\ obs.delivered[1] =
              [key |-> C23_Expected(obs.input, content_line_offset(World),
                                    ui.m_wheel_scroll_amount),
               at |-> 0]

\* C23 witness: a lone ESC was read and gave the key Escape.
C23_Witness ==
    /\ obs.input = <<27>>
    /\ obs.delivered = <<[key |-> Key({}, KeyEscape), at |-> 0]>>

\* the modifier a button report gives with the tracked state ms: a press
\* of a button that is not tracked, a move otherwise, or a release
C24_Button(left, release, ms) ==
    IF release THEN (IF left THEN "MouseReleaseLeft" ELSE "MouseReleaseRight")
    ELSE IF (ms \div (IF left THEN 1 ELSE 2)) % 2 = 1 THEN "MousePos"
    ELSE IF left THEN "MousePressLeft" ELSE "MousePressRight"

\* the tracked state after a button report
C24_Tracked(left, release, ms) ==
    IF release
    THEN ms - (IF (ms \div (IF left THEN 1 ELSE 2)) % 2 = 1
               THEN (IF left THEN 1 ELSE 2) ELSE 0)
    ELSE ms + (IF (ms \div (IF left THEN 1 ELSE 2)) % 2 = 1
               THEN 0 ELSE (IF left THEN 1 ELSE 2))

\* C24: over any sequence of mouse reports the tracked state keeps one bit
\* per button: a press gives MousePress{Left,Right} if the button's bit was
\* clear and MousePos otherwise, and the bit is set; an X10 release (code 3)
\* gives MouseReleaseLeft if left is tracked, else MouseReleaseRight if
\* right is tracked, and clears that bit, and gives a plain MousePos when
\* nothing is tracked; wheel reports give Scroll by -wheel_scroll_amount
\* (64) or +wheel_scroll_amount (65) and leave the tracked state as it is.
C24_MouseState ==
    [][os.pc = "drain" /\ os.stdin # <<>> =>
        /\ obs'.ret # NoKey
        /\ ui'.m_mouse_state \in 0..3
        /\ obs.input.b \in {0, 2} =>
              /\ C24_Button(obs.input.b = 0, obs.input.release, ui.m_mouse_state)
                    \in obs'.ret[1].mod
              /\ ui'.m_mouse_state
                    = C24_Tracked(obs.input.b = 0, obs.input.release, ui.m_mouse_state)
        /\ obs.input.b = 3 /\ ui.m_mouse_state % 2 = 1 =>
              /\ "MouseReleaseLeft" \in obs'.ret[1].mod
              /\ ui'.m_mouse_state = ui.m_mouse_state - 1
        /\ obs.input.b = 3 /\ ui.m_mouse_state = 2 =>
              /\ "MouseReleaseRight" \in obs'.ret[1].mod
              /\ ui'.m_mouse_state = 0
        /\ obs.input.b = 3 /\ ui.m_mouse_state = 0 =>
              /\ obs'.ret[1].mod = {"MousePos"}
              /\ ui'.m_mouse_state = 0
        /\ obs.input.b \in {64, 65} =>
              /\ "Scroll" \in obs'.ret[1].mod
              /\ obs'.ret[1].key
                    = (IF obs.input.b = 64 THEN -1 ELSE 1) * ui.m_wheel_scroll_amount
              /\ ui'.m_mouse_state = ui.m_mouse_state]_vars

\* C24 witness: with both buttons tracked an X10 release was read; it
\* released the left button and left the right one tracked.
C24_Witness ==
    /\ obs.op = "get_next_key" /\ obs.nread > 0
    /\ obs.input.b = 3
    /\ obs.ret # NoKey
    /\ "MouseReleaseLeft" \in obs.ret[1].mod
    /\ ui.m_mouse_state = 2

RECURSIVE C25_Width(_, _, _)
\* the columns the items first..last of a horizontal menu take, each with
\* the space after it
C25_Width(items, first, last) ==
    IF first > last THEN 0
    ELSE DisplayLength(items[first + 1]) + 1 + C25_Width(items, first + 1, last)

\* C25 as stated: after menu_select(i) on a shown menu, if i is outside
\* [0, items) then selected_item = -1 and first_item = 0; otherwise
\* selected_item = i and item i is among the items draw_menu paints: in grid
\* mode first_item is a multiple of the row count and first_col <= i / rows
\* < first_col + columns, in horizontal mode first_item <= i and the items
\* first_item..i fit in the visible width.
C25_SelectedShown ==
    obs.op = "menu_select" /\ Present(ui.m_menu) =>
        /\ ~obs.ub
        /\ ui.m_menu.selected_item \in -1..(Len(ui.m_menu.items) - 1)
        /\ ui.m_menu.selected_item = -1 => ui.m_menu.first_item = 0
        /\ ui.m_menu.selected_item >= 0 /\ ui.m_menu.columns # 0 =>
              /\ ui.m_menu.size.line > 0
              /\ ui.m_menu.first_item % ui.m_menu.size.line = 0
              /\ ui.m_menu.first_item \div ui.m_menu.size.line
                    <= ui.m_menu.selected_item \div ui.m_menu.size.line
              /\ ui.m_menu.selected_item \div ui.m_menu.size.line
                    < (ui.m_menu.first_item \div ui.m_menu.size.line) + ui.m_menu.columns
        /\ ui.m_menu.selected_item >= 0 /\ ui.m_menu.columns = 0 =>
              /\ ui.m_menu.first_item <= ui.m_menu.selected_item
              /\ C25_Width(ui.m_menu.items, ui.m_menu.first_item, ui.m_menu.selected_item)
                    <= ui.m_menu.size.column - 3

\* what the loop of parse_csi leaves for a stream that starts with ESC [
\* (the private mode character is skipped as parse_csi skips it)
C26_Loop(input) ==
    IF Len(input) >= 3 /\ input[3] \in {63, 60, 61, 62}
    THEN ParamLoop(get_char_or(Tail(Tail(Tail(input))), 255).c,
                   get_char_or(Tail(Tail(Tail(input))), 255).q, 0, NoParams)
    ELSE ParamLoop(get_char_or(Tail(Tail(input)), 255).c,
                   get_char_or(Tail(Tail(input)), 255).q, 0, NoParams)

\* C26: parse_csi stores at most 16 parameters: the index it writes is in
\* 0..15, missing parameters are 0, and in a sequence with more than 16
\* parameters the byte after the 16th separator is taken as the final byte
\* (with 15 or 16 parameters "7" the final 'A' gives Up with the mask of the
\* second parameter; with 17 the 17th '7' is the final byte, the sequence
\* fails, and ';' and 'A' are read as keys of their own).
C26_SixteenParams ==
    /\ Len(obs.input) >= 2 /\ obs.input[1] = 27 /\ obs.input[2] = 91 =>
          /\ C26_Loop(obs.input).count \in 0..16
          /\ DOMAIN C26_Loop(obs.input).params = 0..15
          /\ \A i \in 0..15 :
                i > C26_Loop(obs.input).count => C26_Loop(obs.input).params[i] = 0
    /\ obs.input \in {ManyParams(15), ManyParams(16)} /\ obs.nread > 0 =>
          /\ obs.nread = Len(obs.input)
          /\ obs.delivered = <<[key |-> Key({"Alt", "Control"}, KeyUp), at |-> 0]>>
    /\ obs.input = ManyParams(17) /\ obs.nread > 0 =>
          /\ obs.nread >= 35
          /\ obs.delivered[1] = [key |-> alt(Key({}, 91)), at |-> 0]
          /\ \A i \in 2..Len(obs.delivered) :
                obs.delivered[i] = [key |-> Key({}, obs.input[34 + i]), at |-> 33 + i]
    /\ obs.input = <<27, 91, 59, 53, 65>> /\ obs.nread > 0 =>
          obs.delivered = <<[key |-> Key({"Control"}, KeyUp), at |-> 0]>>

\* C26 witness: a sequence with 17 parameters was read to its end: the
\* sequence failed at the 17th parameter, then ';' and 'A' were keys.
C26_Witness ==
    /\ obs.input = ManyParams(17)
    /\ os.stdin = <<>>
    /\ Len(obs.delivered) = 3

\* C27 as stated: over menu_show, menu_select, menu_hide and resizes,
\* menu_select never divides by a zero row count: whenever its grid branch
\* can run (columns # 0 and some i with 0 <= i < items) the menu window has
\* at least one line.
C27_RowsNotZero ==
    Running /\ ui.m_menu.columns # 0 /\ Len(ui.m_menu.items) > 0
        => ui.m_menu.size.line >= 1

\* C28: no resize is lost to a race of SIGWINCH with the steps of
\* check_resize: when the last size query succeeded, whenever resize_pending
\* is clear and check_resize is not running, m_dimensions is (rows - 1, cols)
\* of the size the terminal has now.
C28_NoLostResize ==
    (/\ Running /\ ~os.resize_pending /\ ~os.cr.failed
     /\ os.cr.pc \in {"idle", "return"})
        => ui.m_dimensions = Coord(os.winsize.rows - 1, os.winsize.cols)

\* C28 witness: the last SIGWINCH came between the test and the clearing of
\* the flag, check_resize has returned with the flag clear, and the
\* dimensions are those of a size other than the first
C28_Witness ==
    /\ Running /\ ~os.resize_pending /\ ~os.cr.failed
    /\ os.cr.pc = "return" /\ os.cr.hit = "clear"
    /\ os.winsize # BigSize
    /\ ui.m_dimensions = Coord(os.winsize.rows - 1, os.winsize.cols)

\* C29 as stated: under a fair event loop, with a callback installed, no
\* hangup and a working size query, every SIGWINCH is eventually followed
\* by the delivery of a Resize key with the dimensions of the size the
\* terminal took (unless the terminal has taken another size by then, or a
\* menu_show of the client's has ended the process).
C29_ResizeDelivered ==
    \A ws \in LiveSizes :
        (Running /\ obs.op = "SIGWINCH" /\ os.winsize = ws)
            ~> (\/ os.winsize # ws
                \/ obs.op = "menu_show" /\ obs.ub
                \/ /\ Running /\ obs.op = "get_next_key"
                   /\ obs.ret = Some(resize(Coord(ws.rows - 1, ws.cols))))

====
